---- MODULE Spec2Model ----
(***************************************************************************)
(* The slot allocation engine of car_music (src/server.command, the        *)
(* hardened server that starts at line 4740): the single-call slot finders *)
(* findAvailableCourse / findAvailableCourseFair and the batch planner     *)
(* batchAllocation with its three modes.                                   *)
(*                                                                         *)
(* JavaScript values are modelled as follows.                              *)
(*   - a string is the sequence of its UTF-16 code units;                  *)
(*   - null is the one-element sequence <<-1>>, which is no string (no     *)
(*     code unit is negative), so null and the empty string "" differ;     *)
(*   - a function that returns a pair or null returns a record            *)
(*     [course, slot]; the null return is the record NoPair, whose course  *)
(*     is null;                                                            *)
(*   - an object with string keys is a record [keys, course]: keys is the  *)
(*     sequence of its keys in insertion order (what Object.keys returns), *)
(*     course maps each key to the course record [songs |-> ...];          *)
(*   - an array is a sequence; JavaScript indices are 0-based, so the slot *)
(*     of a plan entry is the sequence index minus one;                    *)
(*   - objects are held by reference: heap maps a reference to the         *)
(*     registry it denotes, and the local variable dataCopy is a reference.*)
(***************************************************************************)
EXTENDS Integers, Sequences, FiniteSets, TLC

(***************************************************************************)
(* Bounds of the model.                                                    *)
(***************************************************************************)
\* number of course keys that may be present in the registry
MaxCourses == 3
\* largest requested count N (songCount) of a batch call
MaxSongCount == 5
\* largest number of files of one batch upload
MaxFiles == 2

\* the last time of the clock of the rate limiter
MaxClock == 6

(***************************************************************************)
(* Program constants and strings.                                          *)
(***************************************************************************)
\* songs: [null, null]  -- every course has two song slots
SlotsPerCourse == 2

\* JavaScript null
Null == <<-1>>

\* the return value null of a function that returns {course, slot} or null
NoPair == [course |-> Null, slot |-> -1]

\* the sentinel string 'ALLOCATED'
ALLOCATED == <<65, 76, 76, 79, 67, 65, 84, 69, 68>>

\* the string '.mp3'
Mp3 == <<46, 109, 112, 51>>

\* Course keys: the course file names of the comment at line 4958
\* ("20170221-2.mp3", "20170316.mp3", "20170411.mp3", "20170504.mp3") and the
\* empty string, which POST /api/add-course accepts as a key like any other
\* string (it stores req.body.course unchecked).
KeyPool ==
    << <<50, 48, 49, 55, 48, 50, 50, 49, 45, 50>> \o Mp3,
       <<50, 48, 49, 55, 48, 51, 49, 54>> \o Mp3,
       <<>>,
       <<50, 48, 49, 55, 48, 52, 49, 49>> \o Mp3,
       <<50, 48, 49, 55, 48, 53, 48, 52>> \o Mp3 >>

CourseKeys == { KeyPool[i] : i \in 1..MaxCourses }

\* the strategy strings a request may carry; "bogus" stands for any string
\* that is none of the four names
RoundRobin == "round_robin"
LeastSongsFirst == "least_songs_first"
Random == "random"
Original == "original"
Strategies == {RoundRobin, LeastSongsFirst, Random, Original}
RequestStrategies == Strategies \cup {"bogus"}

\* the value of a strategy argument that the caller left out
Undefined == "undefined"

\* the strategy arguments of a call
StrategyArguments == RequestStrategies \cup {Undefined}

\* strategy = 'round_robin' in the parameter lists of findAvailableCourseFair
\* and batchAllocation (lines 5156, 5239): the default stands in for an
\* argument that is undefined
DefaultStrategy(s) == IF s = Undefined THEN RoundRobin ELSE s

VARIABLES
    heap,          \* reference -> registry object ("data", "dataCopy")
    input,         \* the registry as it was when the current call was made
    dataCopy,      \* batchAllocation: the reference held by dataCopy
    strategy,      \* the strategy argument of the current call
    songCount,     \* batchAllocation: the songCount argument
    courses,       \* Object.keys(data).sort()
    sortedCourses, \* batchFairAllocation: the seed-round order
    pos,           \* position of the running for-of loop (1-based)
    allocations,   \* the plan built so far
    songIndex,     \* number of entries produced so far
    pc,            \* where the current call is
    found,         \* the value returned by findAvailableCourseFair
    call,          \* 1 for the first batch call, 2 for the repeated one
    firstPlan,     \* the plan returned by the first batch call
    analysis,      \* the body of the analyze-allocation-performance response
    registry,      \* the content of music-map.json
    disk,          \* the names of the files in SONG_DIR
    response,      \* the answer to the last request
    inflight,      \* the requests that wait at an await, and their outcome
    rateLimiter,   \* rateLimiter.requests, and what isAllowed answered
    now            \* Date.now()

\* the variables of the allocation calls
allocatorVars == << heap, input, dataCopy, strategy, songCount, courses,
                    sortedCourses, pos, allocations, songIndex, pc, found,
                    call, firstPlan >>

\* the variables of the server around them
serverVars == << registry, disk, response >>

\* the variables of overlapping requests and of the rate limiter
raceVars == << inflight, rateLimiter, now >>

vars == << allocatorVars, analysis, serverVars, raceVars >>

(***************************************************************************)
(* Strings and arrays.                                                     *)
(***************************************************************************)
\* a < b for two strings, compared by code units (what Array.prototype.sort
\* without a comparator uses)
RECURSIVE LexLess(_, _)
LexLess(a, b) ==
    IF b = <<>> THEN FALSE
    ELSE IF a = <<>> THEN TRUE
    ELSE IF Head(a) < Head(b) THEN TRUE
    ELSE IF Head(a) > Head(b) THEN FALSE
    ELSE LexLess(Tail(a), Tail(b))

RECURSIVE InsertString(_, _)
InsertString(x, s) ==
    IF s = <<>> THEN <<x>>
    ELSE IF LexLess(x, Head(s)) THEN <<x>> \o s
    ELSE <<Head(s)>> \o InsertString(x, Tail(s))

\* keys.sort(): ascending in code-unit order
RECURSIVE SortStrings(_)
SortStrings(s) ==
    IF s = <<>> THEN <<>> ELSE InsertString(Head(s), SortStrings(Tail(s)))

\* Object.keys(data): the keys in insertion order (no key is an array index)
ObjectKeys(d) == d.keys

\* SortedKeys without the sort: the keys in insertion order
SortedKeysUnsorted(d) == ObjectKeys(d)

\* Object.keys(data).sort()
SortedKeys(d) == SortStrings(ObjectKeys(d))

Reverse(s) == [i \in 1..Len(s) |-> s[Len(s) + 1 - i]]

\* data[course].songs || []
SongsOf(d, course) == d.course[course].songs

\* songs.indexOf(null): the lowest 0-based index holding null, or -1
IndexOfNull(songs) ==
    IF \E i \in 1..Len(songs) : songs[i] = Null
    THEN (CHOOSE i \in 1..Len(songs) :
             /\ songs[i] = Null
             /\ \A j \in 1..(i - 1) : songs[j] # Null) - 1
    ELSE -1

\* songs.filter(song => song !== null).length
CountNonNull(songs) == Cardinality({ i \in 1..Len(songs) : songs[i] # Null })

\* songs.filter(song => song !== null && song !== 'ALLOCATED').length
CountReal(songs) ==
    Cardinality({ i \in 1..Len(songs) : songs[i] # Null /\ songs[i] # ALLOCATED })

\* songs.map((song, index) => song === null ? index : null)
\*      .filter(slot => slot !== null): the 0-based indices of the null slots,
\* ascending
RECURSIVE EmptySlotsFrom(_, _)
EmptySlotsFrom(songs, i) ==
    IF i > Len(songs) THEN <<>>
    ELSE (IF songs[i] = Null THEN <<i - 1>> ELSE <<>>) \o EmptySlotsFrom(songs, i + 1)

EmptySlots(songs) == EmptySlotsFrom(songs, 1)

\* courseFile.replace('.mp3', ''): the first '.mp3' removed
RemoveMp3(s) ==
    IF \E i \in 1..Len(s) : i + 3 <= Len(s) /\ SubSeq(s, i, i + 3) = Mp3
    THEN LET i == CHOOSE k \in 1..Len(s) :
                     /\ k + 3 <= Len(s) /\ SubSeq(s, k, k + 3) = Mp3
                     /\ \A j \in 1..(k - 1) : SubSeq(s, j, j + 3) # Mp3
         IN SubSeq(s, 1, i - 1) \o SubSeq(s, i + 4, Len(s))
    ELSE s

\* courseFile.match(/(\d{8})(-\d+)?/) is not null: eight digits in a row
MatchesCourse(s) ==
    \E i \in 1..Len(s) :
        /\ i + 7 <= Len(s)
        /\ \A j \in i..(i + 7) : s[j] \in 48..57

\* generatePlaylistName(courseFile, songIndex) for songIndex 0 or 1: null
\* when the name holds no eight digits, else the name without '.mp3'
\* followed by "-A.mp3" or "-B.mp3"
generatePlaylistName(courseFile, index) ==
    IF ~MatchesCourse(courseFile) THEN Null
    ELSE RemoveMp3(courseFile) \o <<45>>
             \o (IF index = 0 THEN <<65>> ELSE <<66>>) \o Mp3

\* JSON.parse(JSON.stringify(data)): a new object with the same keys in the
\* same order; strings and null are kept as they are
JsonClone(d) ==
    [keys |-> d.keys,
     course |-> [k \in DOMAIN d.course |->
                    [songs |-> [i \in 1..Len(d.course[k].songs) |->
                                   d.course[k].songs[i]]]]]

\* SetSlot with the assignment lost: the slot keeps its value
SetSlotDropped(d, course, slot, value) == d

\* dataCopy[course].songs[slot] = value, for a 0-based slot
SetSlot(d, course, slot, value) ==
    [d EXCEPT !.course[course].songs[slot + 1] = value]

(***************************************************************************)
(* Single-call slot finders (lines 5143-5236).  Each returns a pair        *)
(* [course, slot] or NoPair (null).                                        *)
(***************************************************************************)
\* a string used as a condition: null and the empty string are falsy
Truthy(str) == str # Null /\ str # <<>>

\* findAvailableCourse(data): the loop over courses from position i on
RECURSIVE FirstFitFrom(_, _, _)
FirstFitFrom(d, cs, i) ==
    IF i > Len(cs) THEN NoPair
    ELSE LET emptyIndex == IndexOfNull(SongsOf(d, cs[i]))
         IN IF emptyIndex # -1
            THEN [course |-> cs[i], slot |-> emptyIndex]
            ELSE FirstFitFrom(d, cs, i + 1)

findAvailableCourse(d) == FirstFitFrom(d, SortedKeys(d), 1)

\* the courseStats record of one course (lines 5174-5184)
CourseStat(d, course) ==
    LET songs == SongsOf(d, course)
    IN [course |-> course,
        songCount |-> CountNonNull(songs),
        emptySlots |-> EmptySlots(songs),
        hasEmptySlot |-> Len(EmptySlots(songs)) > 0]

\* InsertStat putting an element before its equals, as an unstable sort or
\* the comparator of a descending tie-break would
RECURSIVE InsertStatBeforeEqual(_, _)
InsertStatBeforeEqual(x, s) ==
    IF s = <<>> THEN <<x>>
    ELSE IF x.songCount - Head(s).songCount <= 0 THEN <<x>> \o s
    ELSE <<Head(s)>> \o InsertStatBeforeEqual(x, Tail(s))

\* courseStats.sort((a, b) => a.songCount - b.songCount): a stable sort
\* (ECMAScript 2019; the file needs a newer engine, it uses ?.), done here by
\* inserting each element behind the elements that do not compare greater
RECURSIVE InsertStat(_, _)
InsertStat(x, s) ==
    IF s = <<>> THEN <<x>>
    ELSE IF x.songCount - Head(s).songCount < 0 THEN <<x>> \o s
    ELSE <<Head(s)>> \o InsertStat(x, Tail(s))

RECURSIVE SortStatsFrom(_, _)
SortStatsFrom(s, acc) ==
    IF s = <<>> THEN acc ELSE SortStatsFrom(Tail(s), InsertStat(Head(s), acc))

SortStats(s) == SortStatsFrom(s, <<>>)

\* findAvailableCourseRoundRobin(data, courses)
findAvailableCourseRoundRobin(d, cs) ==
    LET all == [i \in 1..Len(cs) |-> CourseStat(d, cs[i])]
        HasEmpty(stat) == stat.hasEmptySlot
        courseStats == SelectSeq(all, HasEmpty)
        selected == SortStats(courseStats)[1]
    IN IF Len(courseStats) = 0 THEN NoPair
       ELSE [course |-> selected.course, slot |-> selected.emptySlots[1]]

\* songCount < minSongs, where minSongs is <<>> for Infinity and <<n>> for n
LessThanMin(n, minSongs) == minSongs = <<>> \/ n < minSongs[1]

\* findAvailableCourseLeastSongsFirst(data, courses): the loop from position
\* i on, with the current minSongs, selectedCourse and selectedSlot
RECURSIVE LeastSongsLoop(_, _, _, _, _, _)
LeastSongsLoop(d, cs, i, minSongs, selectedCourse, selectedSlot) ==
    IF i > Len(cs)
    THEN IF Truthy(selectedCourse)
         THEN [course |-> selectedCourse, slot |-> selectedSlot]
         ELSE NoPair
    ELSE LET songs == SongsOf(d, cs[i])
             count == CountNonNull(songs)
             emptyIndex == IndexOfNull(songs)
         IN IF emptyIndex # -1 /\ LessThanMin(count, minSongs)
            THEN LeastSongsLoop(d, cs, i + 1, <<count>>, cs[i], emptyIndex)
            ELSE LeastSongsLoop(d, cs, i + 1, minSongs, selectedCourse, selectedSlot)

findAvailableCourseLeastSongsFirst(d, cs) ==
    LeastSongsLoop(d, cs, 1, <<>>, Null, -1)

\* availableCourses of findAvailableCourseRandom: one pair per course that
\* has a null slot, in the order of courses
RECURSIVE AvailableFrom(_, _, _)
AvailableFrom(d, cs, i) ==
    IF i > Len(cs) THEN <<>>
    ELSE LET emptyIndex == IndexOfNull(SongsOf(d, cs[i]))
         IN (IF emptyIndex # -1
             THEN << [course |-> cs[i], slot |-> emptyIndex] >>
             ELSE <<>>) \o AvailableFrom(d, cs, i + 1)

AvailableCourses(d, cs) == AvailableFrom(d, cs, 1)

\* RandomIndex scaled by length - 1: the last candidate is never drawn
RandomIndexShort(length) == 0..(length - 2)

\* Math.floor(Math.random() * length): any index 0 .. length-1, since
\* Math.random() is in [0, 1)
RandomIndex(length) == 0..(length - 1)

\* findAvailableCourseRandom(data, courses): the values it may return
findAvailableCourseRandom(d, cs) ==
    LET availableCourses == AvailableCourses(d, cs)
    IN IF Len(availableCourses) = 0 THEN {NoPair}
       ELSE { availableCourses[r + 1] : r \in RandomIndex(Len(availableCourses)) }

\* findAvailableCourseFair(data, strategy): the values it may return
findAvailableCourseFair(d, s) ==
    LET cs == SortedKeys(d)
        st == DefaultStrategy(s)
    IN CASE st = RoundRobin -> { findAvailableCourseRoundRobin(d, cs) }
         [] st = LeastSongsFirst -> { findAvailableCourseLeastSongsFirst(d, cs) }
         [] st = Random -> findAvailableCourseRandom(d, cs)
         [] OTHER -> { findAvailableCourse(d) }

(***************************************************************************)
(* Finders on the working copy (lines 5367-5451): a slot marked            *)
(* 'ALLOCATED' is not null, and is not counted as a song.                  *)
(***************************************************************************)
\* the courseStats record of findAvailableCourseRoundRobinWithCopy
\* (lines 5384-5399); its emptySlots is actualEmptySlots
CourseStatWithCopy(d, course) ==
    LET songs == SongsOf(d, course)
    IN [course |-> course,
        songCount |-> CountReal(songs),
        emptySlots |-> EmptySlots(songs),
        hasEmptySlot |-> Len(EmptySlots(songs)) > 0]

\* findAvailableCourseRoundRobinWithCopy taking the last course of the
\* sorted list, not the first
RoundRobinWithCopyLast(d, cs) ==
    LET all == [i \in 1..Len(cs) |-> CourseStatWithCopy(d, cs[i])]
        HasEmpty(stat) == stat.hasEmptySlot
        courseStats == SelectSeq(all, HasEmpty)
        selected == SortStats(courseStats)[Len(courseStats)]
    IN IF Len(courseStats) = 0 THEN NoPair
       ELSE [course |-> selected.course, slot |-> selected.emptySlots[1]]

findAvailableCourseRoundRobinWithCopy(d, cs) ==
    LET all == [i \in 1..Len(cs) |-> CourseStatWithCopy(d, cs[i])]
        HasEmpty(stat) == stat.hasEmptySlot
        courseStats == SelectSeq(all, HasEmpty)
        selected == SortStats(courseStats)[1]
    IN IF Len(courseStats) = 0 THEN NoPair
       ELSE [course |-> selected.course, slot |-> selected.emptySlots[1]]

RECURSIVE LeastSongsLoopWithCopy(_, _, _, _, _, _)
LeastSongsLoopWithCopy(d, cs, i, minSongs, selectedCourse, selectedSlot) ==
    IF i > Len(cs)
    THEN IF Truthy(selectedCourse)
         THEN [course |-> selectedCourse, slot |-> selectedSlot]
         ELSE NoPair
    ELSE LET songs == SongsOf(d, cs[i])
             count == CountReal(songs)
             emptyIndex == IndexOfNull(songs)
         IN IF emptyIndex # -1 /\ LessThanMin(count, minSongs)
            THEN LeastSongsLoopWithCopy(d, cs, i + 1, <<count>>, cs[i], emptyIndex)
            ELSE LeastSongsLoopWithCopy(d, cs, i + 1, minSongs,
                                        selectedCourse, selectedSlot)

findAvailableCourseLeastSongsFirstWithCopy(d, cs) ==
    LeastSongsLoopWithCopy(d, cs, 1, <<>>, Null, -1)

findAvailableCourseRandomWithCopy(d, cs) ==
    LET availableCourses == AvailableCourses(d, cs)
    IN IF Len(availableCourses) = 0 THEN {NoPair}
       ELSE { availableCourses[r + 1] : r \in RandomIndex(Len(availableCourses)) }

\* findAvailableCourseFairWithCopy(dataCopy, strategy): the values it may
\* return
findAvailableCourseFairWithCopy(d, s) ==
    LET cs == SortedKeys(d)
    IN CASE s = RoundRobin -> { findAvailableCourseRoundRobinWithCopy(d, cs) }
         [] s = LeastSongsFirst ->
                { findAvailableCourseLeastSongsFirstWithCopy(d, cs) }
         [] s = Random -> findAvailableCourseRandomWithCopy(d, cs)
         [] OTHER -> { findAvailableCourseLeastSongsFirstWithCopy(d, cs) }

(***************************************************************************)
(* batchAllocation (lines 5239-5364).                                      *)
(***************************************************************************)
\* CopyRef without the copy: dataCopy is the argument itself
CopyRefAliased == "data"

\* the object that JSON.parse(JSON.stringify(data)) creates (line 5244): a
\* new object, not the argument
CopyRef == "dataCopy"

\* the branch batchAllocation takes (lines 5246-5255)
BatchBranch(s) ==
    IF s = Original THEN "original"
    ELSE IF s = Random THEN "random"
    ELSE "seed"

\* CoursesWithEmptySlots with the filter inverted: the full courses
CoursesWithoutEmptySlots(d, cs) ==
    LET Full(course) == \A i \in 1..Len(SongsOf(d, course)) :
                            SongsOf(d, course)[i] # Null
    IN SelectSeq(cs, Full)

\* coursesWithEmptySlots (lines 5314-5317)
CoursesWithEmptySlots(d, cs) ==
    LET HasNull(course) == \E i \in 1..Len(SongsOf(d, course)) :
                               SongsOf(d, course)[i] = Null
    IN SelectSeq(cs, HasNull)

\* sortedCourses (lines 5320-5334): both branches sort with the same
\* comparator, songsA - songsB, where songs counts the non-null slots
RECURSIVE InsertCourse(_, _, _)
InsertCourse(d, x, s) ==
    IF s = <<>> THEN <<x>>
    ELSE IF CountNonNull(SongsOf(d, x)) - CountNonNull(SongsOf(d, Head(s))) < 0
         THEN <<x>> \o s
    ELSE <<Head(s)>> \o InsertCourse(d, x, Tail(s))

RECURSIVE SortCoursesFrom(_, _, _)
SortCoursesFrom(d, s, acc) ==
    IF s = <<>> THEN acc
    ELSE SortCoursesFrom(d, Tail(s), InsertCourse(d, Head(s), acc))

\* SortedCourses without the sort: the courses stay in key order
SortedCoursesByKey(d, s, cs) == CoursesWithEmptySlots(d, cs)

SortedCourses(d, s, cs) ==
    IF s = LeastSongsFirst
    THEN SortCoursesFrom(d, CoursesWithEmptySlots(d, cs), <<>>)
    ELSE SortCoursesFrom(d, CoursesWithEmptySlots(d, cs), <<>>)

\* FillCourse leaving the course after its first empty slot
FillCourseFirstOnly(d, course, slot, allocs, idx, n) ==
    LET emptyIndex == IndexOfNull(SongsOf(d, course))
    IN IF emptyIndex # -1 /\ idx < n
       THEN [d |-> SetSlot(d, course, emptyIndex, ALLOCATED),
             allocations |-> Append(allocs, [course |-> course, slot |-> emptyIndex]),
             songIndex |-> idx + 1]
       ELSE [d |-> d, allocations |-> allocs, songIndex |-> idx]

\* the inner loop of batchOriginalAllocation (lines 5267-5274) for one
\* course, from slot on: the copy, the plan and songIndex after it
RECURSIVE FillCourse(_, _, _, _, _, _)
FillCourse(d, course, slot, allocs, idx, n) ==
    IF slot >= Len(SongsOf(d, course)) \/ idx >= n
    THEN [d |-> d, allocations |-> allocs, songIndex |-> idx]
    ELSE IF SongsOf(d, course)[slot + 1] = Null
         THEN FillCourse(SetSlot(d, course, slot, ALLOCATED), course, slot + 1,
                         Append(allocs, [course |-> course, slot |-> slot]),
                         idx + 1, n)
    ELSE FillCourse(d, course, slot + 1, allocs, idx, n)

(***************************************************************************)
(* batchAllocation as a function of its arguments: the plans a call may    *)
(* return.  The handlers that run to completion without yielding use it.   *)
(***************************************************************************)
\* the outer loop of batchOriginalAllocation from course i on
RECURSIVE OriginalFrom(_, _, _, _, _, _)
OriginalFrom(d, n, cs, i, allocs, idx) ==
    IF i > Len(cs) \/ idx >= n THEN allocs
    ELSE LET r == FillCourse(d, cs[i], 0, allocs, idx, n)
         IN OriginalFrom(r.d, n, cs, i + 1, r.allocations, r.songIndex)

batchOriginalAllocation(d, n, cs) == { OriginalFrom(d, n, cs, 1, <<>>, 0) }

\* the while loop of batchRandomAllocation; songIndex is allocations.length
RECURSIVE RandomFrom(_, _, _, _)
RandomFrom(d, n, cs, allocs) ==
    IF Len(allocs) >= n THEN {allocs}
    ELSE LET availableCourses == AvailableCourses(d, cs)
         IN IF Len(availableCourses) = 0 THEN {allocs}
            ELSE UNION { RandomFrom(SetSlot(d, availableCourses[r + 1].course,
                                            availableCourses[r + 1].slot, ALLOCATED),
                                    n, cs, Append(allocs, availableCourses[r + 1])) :
                         r \in RandomIndex(Len(availableCourses)) }

batchRandomAllocation(d, n, cs) == RandomFrom(d, n, cs, <<>>)

\* the first loop of batchFairAllocation from sortedCourses[i] on: the copy
\* and the plan after it
RECURSIVE SeedFrom(_, _, _, _, _)
SeedFrom(d, n, sorted, i, allocs) ==
    IF i > Len(sorted) \/ Len(allocs) >= n
    THEN [d |-> d, allocations |-> allocs]
    ELSE LET emptySlot == IndexOfNull(SongsOf(d, sorted[i]))
         IN IF emptySlot # -1
            THEN SeedFrom(SetSlot(d, sorted[i], emptySlot, ALLOCATED), n, sorted,
                          i + 1,
                          Append(allocs, [course |-> sorted[i], slot |-> emptySlot]))
            ELSE SeedFrom(d, n, sorted, i + 1, allocs)

\* the second loop of batchFairAllocation
RECURSIVE FillFrom(_, _, _, _)
FillFrom(d, n, s, allocs) ==
    IF Len(allocs) >= n THEN {allocs}
    ELSE UNION { IF available = NoPair THEN {allocs}
                 ELSE FillFrom(SetSlot(d, available.course, available.slot,
                                       ALLOCATED),
                               n, s, Append(allocs, available)) :
                 available \in findAvailableCourseFairWithCopy(d, s) }

batchFairAllocation(d, n, s, cs) ==
    LET seeded == SeedFrom(d, n, SortedCourses(d, s, cs), 1, <<>>)
    IN FillFrom(seeded.d, n, s, seeded.allocations)

\* batchAllocation(data, songCount, strategy): the set of plans it may return
batchAllocation(d, n, s) ==
    LET cs == SortedKeys(d)
        copy == JsonClone(d)
        st == DefaultStrategy(s)
    IN IF BatchBranch(st) = "original" THEN batchOriginalAllocation(copy, n, cs)
       ELSE IF BatchBranch(st) = "random" THEN batchRandomAllocation(copy, n, cs)
       ELSE batchFairAllocation(copy, n, st, cs)

(***************************************************************************)
(* analyze-allocation-performance (lines 5505-5566).  A fairnessScore is   *)
(* the string toFixed(3) makes; the model holds it in thousandths, and NaN *)
(* as -1.  Square roots and quotients are exact here, where the program    *)
(* computes them in double precision.                                      *)
(***************************************************************************)
\* the strategies the handler runs, in its order (line 5509)
AnalysisStrategies == << RoundRobin, LeastSongsFirst, Random >>

\* the score "NaN"
NaN == -1

\* bestStrategy = null
NoStrategy == "null"

\* stats (lines 5519-5525): the number of plan entries of every course; a
\* course that is no key of stats has 0
StatsOf(allocs) ==
    [k \in CourseKeys |->
        Cardinality({ i \in 1..Len(allocs) : allocs[i].course = k })]

\* Object.keys(stats)
StatKeys(stats) == { k \in DOMAIN stats : stats[k] > 0 }

\* courseCounts.reduce((sum, count) => sum + Math.pow(count - avg, 2), 0)
\* (line 5531) times totalCourses^2: with avgSongsPerCourse = songCount /
\* totalCourses, (count - avg)^2 = (totalCourses * count - songCount)^2 /
\* totalCourses^2
RECURSIVE SumSquares(_, _, _, _)
SumSquares(S, stats, totalCourses, n) ==
    IF S = {} THEN 0
    ELSE LET k == CHOOSE x \in S : TRUE
         IN (totalCourses * stats[k] - n) * (totalCourses * stats[k] - n)
                + SumSquares(S \ {k}, stats, totalCourses, n)

\* variance (lines 5530-5532) is VarianceNumerator / totalCourses^3
VarianceNumerator(stats, n) ==
    SumSquares(StatKeys(stats), stats, Cardinality(StatKeys(stats)), n)

\* m / 1000 - 1 / (1 + sqrt(P / Q)) <= 0.0005, that is (2m - 1) * (1 + sd)
\* <= 2000 for the standard deviation sd = sqrt(P / Q)
ScoreReaches(P, Q, m) ==
    m = 0 \/ (2 * m - 1) * (2 * m - 1) * P <= (2001 - 2 * m) * (2001 - 2 * m) * Q

\* the largest m of lo..hi that ScoreReaches (it reaches lo)
RECURSIVE LargestReached(_, _, _, _)
LargestReached(P, Q, lo, hi) ==
    IF lo >= hi THEN lo
    ELSE LET mid == (lo + hi + 1) \div 2
         IN IF ScoreReaches(P, Q, mid) THEN LargestReached(P, Q, mid, hi)
            ELSE LargestReached(P, Q, lo, mid - 1)

\* (1 / (1 + standardDeviation)).toFixed(3) in thousandths (line 5541);
\* with no course in stats the variance is 0 / 0 and the score "NaN"
FairnessScore(stats, n) ==
    LET totalCourses == Cardinality(StatKeys(stats))
    IN IF totalCourses = 0 THEN NaN
       ELSE LargestReached(VarianceNumerator(stats, n),
                           totalCourses * totalCourses * totalCourses, 0, 1000)

\* the loop of lines 5548-5556 from strategy i on; parseFloat("NaN") >
\* bestScore is false
RECURSIVE BestFrom(_, _, _, _)
BestFrom(scores, i, bestScore, bestStrategy) ==
    IF i > Len(scores) THEN bestStrategy
    ELSE IF scores[i] # NaN /\ scores[i] > bestScore
         THEN BestFrom(scores, i + 1, scores[i], AnalysisStrategies[i])
    ELSE BestFrom(scores, i + 1, bestScore, bestStrategy)

\* the response for the three plans
AnalysisOf(n, plans) ==
    LET stats == [i \in 1..Len(plans) |-> StatsOf(plans[i])]
        scores == [i \in 1..Len(plans) |-> FairnessScore(stats[i], n)]
    IN [songCount |-> n,
        stats |-> stats,
        fairnessScore |-> scores,
        recommendation |-> BestFrom(scores, 1, 0, NoStrategy)]

\* no analysis was made
NoAnalysis ==
    [songCount |-> 0, stats |-> <<>>, fairnessScore |-> <<>>,
     recommendation |-> NoStrategy]

\* the keys of S in ascending order
RECURSIVE Ascending(_)
Ascending(S) ==
    IF S = {} THEN <<>>
    ELSE LET m == CHOOSE x \in S : \A y \in S \ {x} : LexLess(x, y)
         IN <<m>> \o Ascending(S \ {m})

(***************************************************************************)
(* The registry file and the song directory (lines 4927-5036).  A course   *)
(* is {songs, renamed_files}; a record of renamed_files is {original_name, *)
(* playlist_name, slot}.  metadata and added_time are left out: no         *)
(* decision reads them.                                                    *)
(***************************************************************************)
\* the object {} that initData writes when there is no music-map.json
EmptyRegistry ==
    [keys |-> <<>>,
     course |-> [k \in {} |-> [songs |-> <<>>, renamed_files |-> <<>>]]]

\* NewCourse with one slot
NewCourseOneSlot == [songs |-> << Null >>, renamed_files |-> <<>>]

\* {songs: [null, null], metadata: null, renamed_files: []}
NewCourse ==
    [songs |-> [i \in 1..SlotsPerCourse |-> Null], renamed_files |-> <<>>]

\* data[course] = {songs: [null, null], ...} for a key data does not have
AddKey(d, k) ==
    [keys |-> Append(d.keys, k),
     course |-> [x \in DOMAIN d.course \cup {k} |->
                    IF x = k THEN NewCourse ELSE d.course[x]]]

\* /^\d{8}(-\d+)?\.mp3$/.test(f)
IsCourseFile(f) ==
    /\ Len(f) >= 12
    /\ \A j \in 1..8 : f[j] \in 48..57
    /\ SubSeq(f, Len(f) - 3, Len(f)) = Mp3
    /\ \/ Len(f) = 12
       \/ /\ Len(f) >= 14
          /\ f[9] = 45
          /\ \A j \in 10..(Len(f) - 4) : f[j] \in 48..57

\* files.forEach (lines 4960-4983): every course file that is no key yet
\* becomes a course.  The registries of the model hold no course in the
\* legacy array format, so the upgrade branch is never taken.
RECURSIVE DiscoverCourses(_, _)
DiscoverCourses(d, files) ==
    IF files = <<>> THEN d
    ELSE DiscoverCourses(IF IsCourseFile(Head(files))
                            /\ Head(files) \notin DOMAIN d.course
                         THEN AddKey(d, Head(files))
                         ELSE d,
                         Tail(files))

\* lines 4986-5001: info.renamed_files = info.renamed_files.filter(file =>
\* fs.existsSync(path.join(__dirname, file.playlist_name))); songs is not
\* touched
CleanMissing(d, files) ==
    [d EXCEPT !.course =
        [k \in DOMAIN d.course |->
            LET Exists(file) == file.playlist_name \in files
            IN [d.course[k] EXCEPT
                   !.renamed_files = SelectSeq(d.course[k].renamed_files, Exists)]]]

\* initData() on the registry d with the files of SONG_DIR: the data it
\* returns.  It saves the data when it changed them, so music-map.json
\* holds what it returns.  readdirSync lists the course files in ascending
\* order here.
initData(d, files) == CleanMissing(DiscoverCourses(d, Ascending(files)), files)

\* loadData() { return initData(); }
loadData == initData(registry, disk)

\* a duplicate check that finds no record
IsDuplicateNever(d, originalName) == FALSE

\* renamedFiles.find(f => f.original_name === originalName) in some course
\* (lines 5703-5709, 5770-5776, 5958-5964)
IsDuplicate(d, originalName) ==
    \E k \in DOMAIN d.course :
        \E j \in 1..Len(d.course[k].renamed_files) :
            d.course[k].renamed_files[j].original_name = originalName

\* data[course].songs[index] = newName; data[course].renamed_files.push(...)
\* (lines 5719-5728, 5833-5842, 5975-5984)
PlaceSong(d, course, index, originalName, newName) ==
    [d EXCEPT !.course[course].songs[index + 1] = newName,
              !.course[course].renamed_files =
                  Append(@, [original_name |-> originalName,
                             playlist_name |-> newName,
                             slot |-> index])]

\* the answer to a request: the handler, the HTTP status (0 when no answer
\* is sent), the branch of the handler that answered, the files placed
\* ({original, course, slot}), the names of the files reported as errors,
\* and the total the answer carries.  With the answer of a batch upload or
\* a preview the model keeps two locals of the handler: validFiles and the
\* plan batchAllocation returned.
Respond(handler, status, message, success, errors, total) ==
    [handler |-> handler, status |-> status, message |-> message,
     success |-> success, errors |-> errors, total |-> total,
     validFiles |-> <<>>, allocations |-> <<>>]

\* no request was answered yet
NoResponse == Respond("none", 0, "none", <<>>, <<>>, 0)

\* the two requests that overlap: the first to come in and the second
Requests == { 1, 2 }

\* a request that has not come in: pc is "free", then "await" while the
\* handler waits for getMusicMetadata, then "done".  loaded is what
\* loadData() returned, data the same object with what the handler has
\* assigned to it since, pending the files still to place with the
\* {course, slot} decided for each, and success, errors, status and total
\* are the answer; target is req.body.course of an upload-song.
NoRequest ==
    [pc |-> "free", handler |-> "none", target |-> Null,
     loaded |-> EmptyRegistry,
     data |-> EmptyRegistry, pending |-> <<>>, success |-> <<>>,
     errors |-> <<>>, status |-> 0, total |-> 0]

NoRequests == [r \in Requests |-> NoRequest]

\* the keys (ip:endpoint) of the limiter: the middleware of upload-song
\* and add-song-to-slot, and that of delete-all-songs, for one client
LimiterKeys == { "ip:upload", "ip:delete-all" }

\* rateLimit('upload', 10, 60000) and rateLimit('delete-all', 2, 300000)
Limits ==
    [key \in LimiterKeys |->
        IF key = "ip:upload" THEN [maxRequests |-> 10, windowMs |-> 60000]
        ELSE [maxRequests |-> 2, windowMs |-> 300000]]

\* new Map(): no key has an entry; timestamps holds the arrays of the keys
\* that have one, and key, allowed and cleaned are the last call of
\* isAllowed: its key, its answer and whether it ran cleanup.  The other
\* fields are the history the properties speak of: admitted, the times of
\* the requests let through that are no older than windowMs; uncleaned,
\* the arrays as they would be had cleanup never run, and allowedUncleaned,
\* the answer they give.
NewRateLimiter ==
    [has |-> {}, timestamps |-> [k \in LimiterKeys |-> <<>>],
     key |-> "none", allowed |-> TRUE, cleaned |-> FALSE,
     admitted |-> [k \in LimiterKeys |-> <<>>],
     uncleaned |-> [k \in LimiterKeys |-> <<>>],
     allowedUncleaned |-> TRUE]

(***************************************************************************)
(* The state machine.                                                      *)
(***************************************************************************)
EmptyObject == [keys |-> <<>>, course |-> [k \in {} |-> [songs |-> <<>>]]]

\* the insertion orders the registries of the model have: the keys were
\* added in ascending or in descending order
InsertionOrders(S) == { Ascending(S), Reverse(Ascending(S)) }

\* The registries loadData may return: any set of courses, each with
\* SlotsPerCourse slots; an occupied slot holds the name the upload handlers
\* store in it, generatePlaylistName(course, slot), so a course whose key is
\* no course file name has only empty slots.
Registries ==
    { [keys |-> order,
       course |-> [k \in S |->
                     [songs |-> [i \in 1..SlotsPerCourse |->
                                   IF occ[k][i] THEN generatePlaylistName(k, i - 1)
                                   ELSE Null]]]] :
        <<S, order, occ>> \in
            { t \in UNION { UNION { { <<S, order, occ>> :
                                        occ \in [S -> [1..SlotsPerCourse -> BOOLEAN]] } :
                                    order \in InsertionOrders(S) } :
                            S \in SUBSET CourseKeys } :
                \A k \in t[1] : \A i \in 1..SlotsPerCourse :
                    t[3][k][i] => generatePlaylistName(k, i - 1) # Null } }

Init ==
    /\ \E reg \in Registries :
         /\ heap = [data |-> reg, dataCopy |-> EmptyObject]
         /\ input = reg
    /\ dataCopy = "data"
    /\ strategy = "none"
    /\ songCount = 0
    /\ courses = <<>>
    /\ sortedCourses = <<>>
    /\ pos = 1
    /\ allocations = <<>>
    /\ songIndex = 0
    /\ pc = "idle"
    /\ found = NoPair
    /\ call = 1
    /\ firstPlan = <<>>
    /\ analysis = NoAnalysis
    /\ registry = EmptyRegistry
    /\ disk = {}
    /\ response = NoResponse
    /\ inflight = NoRequests
    /\ rateLimiter = NewRateLimiter
    /\ now = 0

\* a request handler calls findAvailableCourseFair(data, s) on the registry
\* it loaded
FindOne(s) ==
    /\ pc = "idle"
    /\ \E r \in findAvailableCourseFair(heap["data"], s) : found' = r
    /\ strategy' = DefaultStrategy(s)
    /\ pc' = "found"
    /\ UNCHANGED << heap, input, dataCopy, songCount, courses, sortedCourses,
                    pos, allocations, songIndex, call, firstPlan >>
    /\ UNCHANGED << analysis, serverVars, raceVars >>

\* batchAllocation(data, n, s) up to the first loop of the mode it takes
Begin(reg, s, n) ==
    /\ strategy' = DefaultStrategy(s)
    /\ songCount' = n
    /\ courses' = SortedKeys(reg)
    /\ dataCopy' = CopyRef
    /\ heap' = [[data |-> reg, dataCopy |-> EmptyObject]
                   EXCEPT ![CopyRef] = JsonClone(reg)]
    /\ input' = reg
    /\ allocations' = <<>>
    /\ songIndex' = 0
    /\ pos' = 1
    /\ pc' = BatchBranch(DefaultStrategy(s))
    /\ sortedCourses' = IF BatchBranch(DefaultStrategy(s)) = "seed"
                        THEN SortedCourses(JsonClone(reg), DefaultStrategy(s),
                                           SortedKeys(reg))
                        ELSE <<>>
    /\ UNCHANGED found

\* a handler (preview, analysis, batch upload) calls batchAllocation
BatchAllocation(s, n) ==
    /\ pc = "idle"
    /\ Begin(heap["data"], s, n)
    /\ UNCHANGED << call, firstPlan >>
    /\ UNCHANGED << analysis, serverVars, raceVars >>

\* the same call once more, with the same N and a non-random strategy, on
\* the registry as the first call left it, its keys in the same or in the
\* opposite insertion order
BatchAllocationAgain ==
    /\ pc = "done"
    /\ call = 1
    /\ strategy # Random
    /\ \E order \in { heap["data"].keys, Reverse(heap["data"].keys) } :
         Begin([heap["data"] EXCEPT !.keys = order], strategy, songCount)
    /\ call' = 2
    /\ firstPlan' = allocations
    /\ UNCHANGED << analysis, serverVars, raceVars >>

\* one iteration of the for loop of batchOriginalAllocation
OriginalCourse ==
    /\ pc = "original"
    /\ pos <= Len(courses)
    /\ songIndex < songCount
    /\ LET r == FillCourse(heap[dataCopy], courses[pos], 0, allocations,
                           songIndex, songCount)
       IN /\ heap' = [heap EXCEPT ![dataCopy] = r.d]
          /\ allocations' = r.allocations
          /\ songIndex' = r.songIndex
    /\ pos' = pos + 1
    /\ UNCHANGED << input, dataCopy, strategy, songCount, courses,
                    sortedCourses, pc, found, call, firstPlan >>
    /\ UNCHANGED << analysis, serverVars, raceVars >>

OriginalReturn ==
    /\ pc = "original"
    /\ (pos > Len(courses) \/ songIndex >= songCount)
    /\ pc' = "done"
    /\ UNCHANGED << heap, input, dataCopy, strategy, songCount, courses,
                    sortedCourses, pos, allocations, songIndex, found, call,
                    firstPlan >>
    /\ UNCHANGED << analysis, serverVars, raceVars >>

\* allocations.push(pair); dataCopy[pair.course].songs[pair.slot] =
\* 'ALLOCATED'; songIndex++
Allocate(pair) ==
    /\ allocations' = Append(allocations, pair)
    /\ heap' = [heap EXCEPT ![dataCopy] =
                   SetSlot(heap[dataCopy], pair.course, pair.slot, ALLOCATED)]
    /\ songIndex' = songIndex + 1

\* one iteration of the while loop of batchRandomAllocation
RandomDraw ==
    /\ pc = "random"
    /\ songIndex < songCount
    /\ LET availableCourses == AvailableCourses(heap[dataCopy], courses)
       IN /\ Len(availableCourses) # 0
          /\ \E r \in RandomIndex(Len(availableCourses)) :
                Allocate(availableCourses[r + 1])
    /\ UNCHANGED << input, dataCopy, strategy, songCount, courses,
                    sortedCourses, pos, pc, found, call, firstPlan >>
    /\ UNCHANGED << analysis, serverVars, raceVars >>

RandomReturn ==
    /\ pc = "random"
    /\ \/ songIndex >= songCount
       \/ Len(AvailableCourses(heap[dataCopy], courses)) = 0
    /\ pc' = "done"
    /\ UNCHANGED << heap, input, dataCopy, strategy, songCount, courses,
                    sortedCourses, pos, allocations, songIndex, found, call,
                    firstPlan >>
    /\ UNCHANGED << analysis, serverVars, raceVars >>

\* one iteration of the first loop of batchFairAllocation (lines 5339-5350)
SeedCourse ==
    /\ pc = "seed"
    /\ pos <= Len(sortedCourses)
    /\ songIndex < songCount
    /\ LET course == sortedCourses[pos]
           emptySlot == IndexOfNull(SongsOf(heap[dataCopy], course))
       IN IF emptySlot # -1
          THEN Allocate([course |-> course, slot |-> emptySlot])
          ELSE UNCHANGED << allocations, heap, songIndex >>
    /\ pos' = pos + 1
    /\ UNCHANGED << input, dataCopy, strategy, songCount, courses,
                    sortedCourses, pc, found, call, firstPlan >>
    /\ UNCHANGED << analysis, serverVars, raceVars >>

SeedEnd ==
    /\ pc = "seed"
    /\ (pos > Len(sortedCourses) \/ songIndex >= songCount)
    /\ pc' = "fill"
    /\ UNCHANGED << heap, input, dataCopy, strategy, songCount, courses,
                    sortedCourses, pos, allocations, songIndex, found, call,
                    firstPlan >>
    /\ UNCHANGED << analysis, serverVars, raceVars >>

\* one iteration of the second loop of batchFairAllocation (lines 5353-5361)
FillNext ==
    /\ pc = "fill"
    /\ songIndex < songCount
    /\ \E available \in findAvailableCourseFairWithCopy(heap[dataCopy], strategy) :
         /\ available # NoPair
         /\ Allocate(available)
    /\ UNCHANGED << input, dataCopy, strategy, songCount, courses,
                    sortedCourses, pos, pc, found, call, firstPlan >>
    /\ UNCHANGED << analysis, serverVars, raceVars >>

FairReturn ==
    /\ pc = "fill"
    /\ \/ songIndex >= songCount
       \/ NoPair \in findAvailableCourseFairWithCopy(heap[dataCopy], strategy)
    /\ pc' = "done"
    /\ UNCHANGED << heap, input, dataCopy, strategy, songCount, courses,
                    sortedCourses, pos, allocations, songIndex, found, call,
                    firstPlan >>
    /\ UNCHANGED << analysis, serverVars, raceVars >>

\* POST /api/analyze-allocation-performance with songCount n (lines
\* 5505-5566): the three plans for the data loaded, their scores and the
\* recommendation.  The handler takes any songCount the request carries.
AnalyzeAllocationPerformance(n) ==
    /\ pc = "idle"
    /\ \E p1 \in batchAllocation(heap["data"], n, AnalysisStrategies[1]) :
       \E p2 \in batchAllocation(heap["data"], n, AnalysisStrategies[2]) :
       \E p3 \in batchAllocation(heap["data"], n, AnalysisStrategies[3]) :
           analysis' = AnalysisOf(n, << p1, p2, p3 >>)
    /\ pc' = "analysed"
    /\ songCount' = n
    /\ UNCHANGED << heap, input, dataCopy, strategy, courses, sortedCourses,
                    pos, allocations, songIndex, found, call, firstPlan >>
    /\ UNCHANGED << serverVars, raceVars >>

Next ==
    \/ \E s \in StrategyArguments : FindOne(s)
    \/ \E s \in StrategyArguments : \E n \in 0..MaxSongCount : BatchAllocation(s, n)
    \/ BatchAllocationAgain
    \/ OriginalCourse
    \/ OriginalReturn
    \/ RandomDraw
    \/ RandomReturn
    \/ SeedCourse
    \/ SeedEnd
    \/ FillNext
    \/ FairReturn
    \/ \E n \in 0..MaxSongCount : AnalyzeAllocationPerformance(n)

Spec == Init /\ [][Next]_vars

(***************************************************************************)
(* The request handlers (lines 5601-6554), each run from its loadData to   *)
(* its answer with no other request in between.  Every handler starts with *)
(* loadData, whose result is also what music-map.json holds from then on.  *)
(* Requests the rate limiter turns away change nothing and are left out.   *)
(***************************************************************************)
\* file.originalname of an uploaded file: "a.mp3" or "b.mp3"
SongNames == { <<97>> \o Mp3, <<98>> \o Mp3 }

\* req.files of a batch upload: up to MaxFiles files, names may repeat
FileLists == UNION { [1..n -> SongNames] : n \in 0..MaxFiles }

\* the keys the courses of the server have: the course file of the song
\* directory, and the empty string
ServerKeys == { KeyPool[1], <<>> }

\* req.body.course: one of these keys, the name of a course file that is
\* no course, or undefined
CourseInputs == ServerKeys \cup { KeyPool[2], Null }

\* req.body.slot of remove-song, a JSON value: a number, or the string of
\* a number
SlotInputs == [index : 0..SlotsPerCourse, isNumber : BOOLEAN]

\* the course file the song directory holds from the start
CourseFiles == { KeyPool[1] }

\* the state after initData() at line 5452
ServerInit ==
    /\ disk = CourseFiles
    /\ registry = initData(EmptyRegistry, CourseFiles)
    /\ response = NoResponse
    /\ inflight = NoRequests
    /\ rateLimiter = NewRateLimiter
    /\ now = 0
    /\ analysis = NoAnalysis
    /\ heap = [data |-> EmptyObject, dataCopy |-> EmptyObject]
    /\ input = EmptyObject
    /\ dataCopy = "data"
    /\ strategy = "none"
    /\ songCount = 0
    /\ courses = <<>>
    /\ sortedCourses = <<>>
    /\ pos = 1
    /\ allocations = <<>>
    /\ songIndex = 0
    /\ pc = "idle"
    /\ found = NoPair
    /\ call = 1
    /\ firstPlan = <<>>

\* a song file is deleted from SONG_DIR by something other than the server
FileLost(f) ==
    /\ f \in disk
    /\ ~IsCourseFile(f)
    /\ disk' = disk \ {f}
    /\ response' = Respond("file-lost", 0, "none", <<>>, <<>>, 0)
    /\ UNCHANGED << registry, allocatorVars, analysis, raceVars >>

\* POST /api/add-course (lines 5601-5615)
AddCourse(course) ==
    \E data \in {loadData} :
       /\ IF course \notin DOMAIN data.course
          THEN /\ registry' = AddKey(data, course)
               /\ response' = Respond("add-course", 200, "added", <<>>, <<>>, 0)
          ELSE /\ registry' = data
               /\ response' = Respond("add-course", 200, "exists", <<>>, <<>>, 0)
       /\ UNCHANGED << disk, allocatorVars, analysis, raceVars >>

\* POST /api/preview-fair-allocation (lines 5618-5650)
PreviewFairAllocation(n, s) ==
    /\ IF n <= 0
       THEN /\ registry' = registry
            /\ response' = Respond("preview", 400, "count", <<>>, <<>>, 0)
       ELSE \E data \in {loadData} :
            \E plan \in batchAllocation(data, n, s) :
               /\ registry' = data
               /\ response' = [Respond("preview", 200, "ok", <<>>, <<>>, 0)
                                   EXCEPT !.allocations = plan]
    /\ UNCHANGED << disk, allocatorVars, analysis, raceVars >>

\* POST /api/analyze-allocation-performance as the registry file sees it
\* (line 5508): the analysis itself reads the data and writes nothing
AnalysisRequest ==
    /\ registry' = loadData
    /\ response' = Respond("analysis", 200, "ok", <<>>, <<>>, 0)
    /\ UNCHANGED << disk, allocatorVars, analysis, raceVars >>

\* the test of add-song-to-slot with the comparison dropped
SlotTakenNever(songs, slotIndex) == FALSE

\* songs[slotIndex] !== null (line 5951)
SlotTaken(songs, slotIndex) == songs[slotIndex + 1] # Null

\* the outcome of a single upload that passed its checks (lines 5711-5730,
\* 5966-5986): path.join throws when generatePlaylistName gave null
PlaceOne(handler, data, course, index, originalName, caught) ==
    LET newName == generatePlaylistName(course, index)
    IN IF newName = Null
       THEN /\ registry' = data
            /\ disk' = disk
            /\ response' = Respond(handler, IF caught THEN 500 ELSE 0,
                                   "exception", <<>>, <<>>, 0)
       ELSE /\ registry' = PlaceSong(data, course, index, originalName, newName)
            /\ disk' = disk \cup {newName}
            /\ response' = Respond(handler, 200, "ok",
                                   << [original |-> originalName,
                                       course |-> course, slot |-> index] >>,
                                   <<>>, 1)

\* an upload the handler turns away after loadData
Reject(handler, data, message) ==
    /\ registry' = data
    /\ disk' = disk
    /\ response' = Respond(handler, 400, message, <<>>, <<>>, 0)

\* POST /api/upload-song (lines 5653-5739)
UploadSong(originalName, targetCourse) ==
    \E data \in {loadData} :
       /\ IF ~Truthy(targetCourse)
          THEN \E available \in findAvailableCourseFair(data, LeastSongsFirst) :
                  IF available = NoPair
                  THEN Reject("upload-song", data, "no-slot")
                  ELSE IF IsDuplicate(data, originalName)
                  THEN Reject("upload-song", data, "duplicate")
                  ELSE PlaceOne("upload-song", data, available.course,
                                available.slot, originalName, FALSE)
          ELSE IF targetCourse \notin DOMAIN data.course
          THEN Reject("upload-song", data, "no-course")
          ELSE IF IndexOfNull(SongsOf(data, targetCourse)) = -1
          THEN Reject("upload-song", data, "full")
          ELSE IF IsDuplicate(data, originalName)
          THEN Reject("upload-song", data, "duplicate")
          ELSE PlaceOne("upload-song", data, targetCourse,
                        IndexOfNull(SongsOf(data, targetCourse)),
                        originalName, FALSE)
       /\ UNCHANGED << allocatorVars, analysis, raceVars >>

\* POST /api/add-song-to-slot (lines 5916-5998); slotIndex is parseInt(slot)
AddSongToSlot(originalName, course, slotIndex) ==
    \E data \in {loadData} :
       /\ IF ~Truthy(course)
          THEN /\ registry' = registry
               /\ disk' = disk
               /\ response' = Respond("add-song-to-slot", 400, "missing",
                                      <<>>, <<>>, 0)
          ELSE IF course \notin DOMAIN data.course
          THEN Reject("add-song-to-slot", data, "no-course")
          ELSE IF slotIndex < 0 \/ slotIndex >= 2
          THEN Reject("add-song-to-slot", data, "invalid-slot")
          ELSE IF SlotTaken(SongsOf(data, course), slotIndex)
          THEN Reject("add-song-to-slot", data, "occupied")
          ELSE IF IsDuplicate(data, originalName)
          THEN Reject("add-song-to-slot", data, "duplicate")
          ELSE PlaceOne("add-song-to-slot", data, course, slotIndex,
                        originalName, TRUE)
       /\ UNCHANGED << allocatorVars, analysis, raceVars >>

\* the files of a batch whose name some record holds (lines 5769-5786)
DuplicateFiles(data, files) ==
    SelectSeq(files, LAMBDA file : IsDuplicate(data, file))

\* validFiles (lines 5789-5791)
ValidFiles(data, files) ==
    SelectSeq(files, LAMBDA file : ~IsDuplicate(data, file))

\* validFiles[i] for the i after the plan (lines 5806-5815)
Unplaced(validFiles, plan) ==
    SubSeq(validFiles, Len(plan) + 1, Len(validFiles))

\* the loop of lines 5819-5862 from file i on: the data, the directory, the
\* results and the errors after it.  path.join throws when
\* generatePlaylistName gave null, and the catch branch reports the file.
RECURSIVE CommitFrom(_, _, _, _, _, _, _)
CommitFrom(d, files, validFiles, plan, i, results, errors) ==
    IF i > Len(plan) \/ i > Len(validFiles)
    THEN [data |-> d, disk |-> files, results |-> results, errors |-> errors]
    ELSE LET newName == generatePlaylistName(plan[i].course, plan[i].slot)
         IN IF newName = Null
            THEN CommitFrom(d, files, validFiles, plan, i + 1, results,
                            Append(errors, validFiles[i]))
            ELSE CommitFrom(PlaceSong(d, plan[i].course, plan[i].slot,
                                      validFiles[i], newName),
                            files \cup {newName}, validFiles, plan, i + 1,
                            Append(results, [original |-> validFiles[i],
                                             course |-> plan[i].course,
                                             slot |-> plan[i].slot]),
                            errors)

\* what upload-songs-batch does with the plan batchAllocation returned
\* (lines 5806-5862): the errors start with the duplicates and the files
\* after the plan
CommitBatch(data, files, plan) ==
    CommitFrom(data, disk, ValidFiles(data, files), plan, 1, <<>>,
               DuplicateFiles(data, files)
                   \o Unplaced(ValidFiles(data, files), plan))

\* POST /api/upload-songs-batch (lines 5742-5883)
UploadSongsBatch(files, s) ==
    \E data \in {loadData} :
       /\ IF Len(files) = 0
          THEN /\ registry' = registry
               /\ disk' = disk
               /\ response' = Respond("upload-songs-batch", 400, "no-files",
                                      <<>>, <<>>, 0)
          ELSE IF Len(ValidFiles(data, files)) = 0
          THEN /\ registry' = data
               /\ disk' = disk
               /\ response' = Respond("upload-songs-batch", 200, "all-errors",
                                      <<>>, DuplicateFiles(data, files),
                                      Len(files))
          ELSE \E plan \in batchAllocation(data, Len(ValidFiles(data, files)), s) :
               \E done \in {CommitBatch(data, files, plan)} :
                  /\ registry' = done.data
                  /\ disk' = done.disk
                  /\ response' = [Respond("upload-songs-batch", 200, "ok",
                                          done.results, done.errors, Len(files))
                                      EXCEPT !.validFiles = ValidFiles(data, files),
                                             !.allocations = plan]
       /\ UNCHANGED << allocatorVars, analysis, raceVars >>

\* the index of the first record of recs named originalName, or 0
FirstNamed(recs, originalName) ==
    IF \E j \in 1..Len(recs) : recs[j].original_name = originalName
    THEN CHOOSE j \in 1..Len(recs) :
            /\ recs[j].original_name = originalName
            /\ \A i \in 1..(j - 1) : recs[i].original_name # originalName
    ELSE 0

\* recs without its j-th record
WithoutRecord(recs, j) == SubSeq(recs, 1, j - 1) \o SubSeq(recs, j + 1, Len(recs))

\* POST /api/remove-song-by-name (lines 6001-6041) from course keys[i] on
RECURSIVE RemoveByNameFrom(_, _, _)
RemoveByNameFrom(data, i, originalName) ==
    IF i > Len(data.keys)
    THEN /\ registry' = data
         /\ disk' = disk
         /\ response' = Respond("remove-song-by-name", 404, "not-found",
                                <<>>, <<>>, 0)
    ELSE LET course == data.keys[i]
             renamedFiles == data.course[course].renamed_files
             j == FirstNamed(renamedFiles, originalName)
         IN IF j = 0 THEN RemoveByNameFrom(data, i + 1, originalName)
            ELSE /\ disk' = disk \ {renamedFiles[j].playlist_name}
                 /\ registry' =
                       [data EXCEPT
                          !.course[course].songs[renamedFiles[j].slot + 1] = Null,
                          !.course[course].renamed_files =
                              WithoutRecord(renamedFiles, j)]
                 /\ response' = Respond("remove-song-by-name", 200, "ok",
                                        <<>>, <<>>, 0)

RemoveSongByName(originalName) ==
    /\ \E data \in {loadData} : RemoveByNameFrom(data, 1, originalName)
    /\ UNCHANGED << allocatorVars, analysis, raceVars >>

\* renamed_files.filter(f => f.slot !== slot) (line 6066): !== holds for
\* every record when slot is a string
RecordsLeft(recs, slot) ==
    LET Other(f) == ~slot.isNumber \/ f.slot # slot.index
    IN SelectSeq(recs, Other)

\* POST /api/remove-song (lines 6044-6071); songs[slot] is undefined for
\* an index songs does not have
RemoveSong(course, slot) ==
    \E data \in {loadData} :
       /\ IF course \notin DOMAIN data.course
          THEN Reject("remove-song", data, "no-course")
          ELSE IF \/ slot.index >= Len(SongsOf(data, course))
                  \/ SongsOf(data, course)[slot.index + 1] = Null
          THEN Reject("remove-song", data, "empty")
          ELSE /\ disk' = disk \ {SongsOf(data, course)[slot.index + 1]}
               /\ registry' =
                     [data EXCEPT
                        !.course[course].songs[slot.index + 1] = Null,
                        !.course[course].renamed_files = RecordsLeft(@, slot)]
               /\ response' = Respond("remove-song", 200, "ok", <<>>, <<>>, 0)
       /\ UNCHANGED << allocatorVars, analysis, raceVars >>

\* the playlist names of the records of data
RecordedFiles(data) ==
    UNION { { data.course[k].renamed_files[j].playlist_name :
                j \in 1..Len(data.course[k].renamed_files) } :
            k \in DOMAIN data.course }

\* DeleteAll that starts from an empty registry
DeleteAllAndKeys(data) == EmptyRegistry

\* the registry delete-all-songs saves (lines 6437-6460)
DeleteAll(data) ==
    [data EXCEPT !.course =
        [k \in DOMAIN data.course |-> NewCourse]]

\* POST /api/delete-all-songs (lines 6431-6468)
DeleteAllSongs ==
    \E data \in {loadData} :
       /\ disk' = disk \ RecordedFiles(data)
       /\ registry' = DeleteAll(data)
       /\ response' = Respond("delete-all-songs", 200, "ok", <<>>, <<>>, 0)
       /\ UNCHANGED << allocatorVars, analysis, raceVars >>

\* newSongs with the record j only
NewSongsOfOne(validFiles, j, newSongs) ==
    IF j > Len(validFiles) THEN newSongs
    ELSE [newSongs EXCEPT ![validFiles[j].slot + 1] = validFiles[j].playlist_name]

\* newSongs (lines 6535-6541) after the records from j on
RECURSIVE NewSongsFrom(_, _, _)
NewSongsFrom(validFiles, j, newSongs) ==
    IF j > Len(validFiles) THEN newSongs
    ELSE NewSongsFrom(validFiles, j + 1,
                      IF validFiles[j].slot >= 0 /\ validFiles[j].slot < 2
                      THEN [newSongs EXCEPT ![validFiles[j].slot + 1] =
                                                validFiles[j].playlist_name]
                      ELSE newSongs)

\* POST /api/update-music-map (lines 6471-6554): the records whose file
\* exists stay, and songs is rebuilt from them
UpdateMusicMap ==
    \E data \in {loadData} :
    LET Exists(fileInfo) == fileInfo.playlist_name \in disk
    IN /\ registry' =
             [data EXCEPT !.course =
                 [k \in DOMAIN data.course |->
                     LET validFiles == SelectSeq(data.course[k].renamed_files, Exists)
                     IN [songs |-> NewSongsFrom(validFiles, 1, << Null, Null >>),
                         renamed_files |-> validFiles]]]
       /\ response' = Respond("update-music-map", 200, "ok", <<>>, <<>>, 0)
       /\ UNCHANGED << disk, allocatorVars, analysis, raceVars >>

ServerNext ==
    \/ \E f \in disk : FileLost(f)
    \/ \E course \in ServerKeys : AddCourse(course)
    \/ \E n \in 0..MaxSongCount : \E s \in RequestStrategies :
          PreviewFairAllocation(n, s)
    \/ AnalysisRequest
    \/ \E originalName \in SongNames : \E course \in CourseInputs :
          UploadSong(originalName, course)
    \/ \E originalName \in SongNames : \E course \in CourseInputs :
       \E slotIndex \in 0..SlotsPerCourse :
          AddSongToSlot(originalName, course, slotIndex)
    \/ \E files \in FileLists : \E s \in RequestStrategies :
          UploadSongsBatch(files, s)
    \/ \E originalName \in SongNames : RemoveSongByName(originalName)
    \/ \E course \in ServerKeys : \E slot \in SlotInputs : RemoveSong(course, slot)
    \/ DeleteAllSongs
    \/ UpdateMusicMap

ServerSpec == ServerInit /\ [][ServerNext]_vars

(***************************************************************************)
(* Requests that overlap.  Node runs a handler without interruption up to  *)
(* an await.  upload-song and upload-songs-batch load the registry and     *)
(* decide where the files go, then wait for getMusicMetadata (lines 5712,  *)
(* 5824) before each file they place, and save after the last; remove-song *)
(* has no await and runs at once.  Other requests run while one waits.     *)
(***************************************************************************)
\* the course files of the song directory when the requests come in
RaceCourseFiles == { KeyPool[1], KeyPool[2] }

\* the registries the requests start from: the courses of these files with
\* no song, and with the song "c.mp3" that an upload-song put in the first
RaceRegistries ==
    LET empty == initData(EmptyRegistry, RaceCourseFiles)
    IN { empty,
         PlaceSong(empty, KeyPool[1], 0, <<99>> \o Mp3,
                   generatePlaylistName(KeyPool[1], 0)) }

\* the strategy of the batch uploads that overlap
RaceStrategies == { RoundRobin }

\* req.body.slot of the remove-song requests that come in meanwhile
RaceSlotInputs == { slot \in SlotInputs : slot.isNumber /\ slot.index < SlotsPerCourse }

\* the requests take the places of inflight in order
NextFree(r) ==
    /\ inflight[r].pc = "free"
    /\ \A q \in 1..(r - 1) : inflight[q].pc # "free"

\* req.body.course of an upload-song: left out, or one of the courses
RaceCourseInputs == RaceCourseFiles \cup { Null }

RaceInit ==
    /\ \E reg \in RaceRegistries :
          /\ registry = reg
          /\ disk = RaceCourseFiles \cup RecordedFiles(reg)
    /\ response = NoResponse
    /\ inflight = NoRequests
    /\ rateLimiter = NewRateLimiter
    /\ now = 0
    /\ analysis = NoAnalysis
    /\ heap = [data |-> EmptyObject, dataCopy |-> EmptyObject]
    /\ input = EmptyObject
    /\ dataCopy = "data"
    /\ strategy = "none"
    /\ songCount = 0
    /\ courses = <<>>
    /\ sortedCourses = <<>>
    /\ pos = 1
    /\ allocations = <<>>
    /\ songIndex = 0
    /\ pc = "idle"
    /\ found = NoPair
    /\ call = 1
    /\ firstPlan = <<>>

\* what upload-song decides before its await (lines 5672-5709): the message
\* of the branch that turns the upload away, or "ok" and the course and
\* slot of the file
UploadSongDecision(data, originalName, targetCourse) ==
    LET Turned(message) == [message |-> message, course |-> Null, slot |-> -1]
        Passed(course, slot) ==
            IF IsDuplicate(data, originalName) THEN Turned("duplicate")
            ELSE [message |-> "ok", course |-> course, slot |-> slot]
    IN IF ~Truthy(targetCourse)
       THEN { IF available = NoPair THEN Turned("no-slot")
              ELSE Passed(available.course, available.slot) :
              available \in findAvailableCourseFair(data, LeastSongsFirst) }
       ELSE IF targetCourse \notin DOMAIN data.course
       THEN { Turned("no-course") }
       ELSE IF IndexOfNull(SongsOf(data, targetCourse)) = -1
       THEN { Turned("full") }
       ELSE { Passed(targetCourse, IndexOfNull(SongsOf(data, targetCourse))) }

\* a request that was answered when it came in
Answered(handler, data, status, errors, total) ==
    [NoRequest EXCEPT !.pc = "done", !.handler = handler, !.loaded = data,
                      !.data = data, !.status = status, !.errors = errors,
                      !.total = total]

\* a request that waits for the metadata of its first file
Waiting(handler, data, pending, errors, total) ==
    [NoRequest EXCEPT !.pc = "await", !.handler = handler, !.loaded = data,
                      !.data = data, !.pending = pending, !.errors = errors,
                      !.total = total]

\* POST /api/upload-song up to its await (lines 5653-5712).  loadData saves
\* what its cleanup changed.
BeginUploadSong(r, originalName, targetCourse) ==
    /\ NextFree(r)
    /\ \E data \in {loadData} :
       \E decision \in UploadSongDecision(data, originalName, targetCourse) :
          /\ registry' = data
          /\ IF decision.message # "ok"
             THEN /\ inflight' = [inflight EXCEPT ![r] =
                        [Answered("upload-song", data, 400, <<>>, 0)
                            EXCEPT !.target = targetCourse]]
                  /\ response' = Respond("upload-song", 400, decision.message,
                                         <<>>, <<>>, 0)
             ELSE /\ inflight' = [inflight EXCEPT ![r] =
                        [Waiting("upload-song", data,
                                 << [original |-> originalName,
                                     course |-> decision.course,
                                     slot |-> decision.slot] >>, <<>>, 1)
                            EXCEPT !.target = targetCourse]]
                  /\ response' = response
    /\ UNCHANGED << disk, rateLimiter, now, allocatorVars, analysis >>

\* the files of a batch the plan has an entry for, each with its entry
\* (the bound of the loop at line 5818)
Planned(validFiles, plan) ==
    [i \in 1..(IF Len(plan) < Len(validFiles) THEN Len(plan) ELSE Len(validFiles))
        |-> [original |-> validFiles[i], course |-> plan[i].course,
             slot |-> plan[i].slot]]

\* POST /api/upload-songs-batch up to the await of its first file (lines
\* 5742-5824); with no file to place it saves and answers at once
BeginUploadSongsBatch(r, files, s) ==
    /\ NextFree(r)
    /\ Len(files) > 0
    /\ \E data \in {loadData} :
       \E validFiles \in {ValidFiles(data, files)} :
          /\ registry' = data
          /\ IF Len(validFiles) = 0
             THEN /\ inflight' = [inflight EXCEPT ![r] =
                        Answered("upload-songs-batch", data, 200,
                                 DuplicateFiles(data, files), Len(files))]
                  /\ response' = Respond("upload-songs-batch", 200,
                                         "all-errors", <<>>,
                                         DuplicateFiles(data, files), Len(files))
             ELSE \E plan \in batchAllocation(data, Len(validFiles), s) :
                  \E errors \in {DuplicateFiles(data, files)
                                    \o Unplaced(validFiles, plan)} :
                     IF Len(plan) = 0
                     THEN /\ inflight' = [inflight EXCEPT ![r] =
                                Answered("upload-songs-batch", data, 200,
                                         errors, Len(files))]
                          /\ response' = Respond("upload-songs-batch", 200,
                                                 "ok", <<>>, errors, Len(files))
                     ELSE /\ inflight' = [inflight EXCEPT ![r] =
                                Waiting("upload-songs-batch", data,
                                        Planned(validFiles, plan), errors,
                                        Len(files))]
                          /\ response' = response
    /\ UNCHANGED << disk, rateLimiter, now, allocatorVars, analysis >>

\* DataAtResume that reads the registry file again
DataAtResumeReloaded(held) == loadData

\* data when the handler goes on after its await: the object it loaded
\* before (const data = loadData(), lines 5670 and 5764)
DataAtResume(held) == held

\* saveData that writes only the slots that are empty in the file
saveDataEmptySlotsOnly(data) ==
    [data EXCEPT !.course =
        [k \in DOMAIN data.course |->
            IF k \notin DOMAIN registry.course THEN data.course[k]
            ELSE [data.course[k] EXCEPT !.songs =
                    [i \in 1..Len(data.course[k].songs) |->
                        IF registry.course[k].songs[i] = Null
                        THEN data.course[k].songs[i]
                        ELSE registry.course[k].songs[i]]]]]

\* saveData(data) (lines 5018-5037): the file holds data, whatever it held
saveData(data) == data

\* the handler goes on after `await getMusicMetadata(file.path)` with the
\* first file it has not placed (lines 5712-5738, 5824-5851): it renames the
\* file and assigns the slot and the record in its data.  path.join throws
\* when generatePlaylistName gave null: upload-song then ends with no save
\* and no answer, the batch reports the file (lines 5852-5861).  After its
\* last file the handler saves its data and answers.
ResumeRequest(r) ==
    /\ inflight[r].pc = "await"
    /\ LET req == inflight[r]
           file == req.pending[1]
           newName == generatePlaylistName(file.course, file.slot)
           held == DataAtResume(req.data)
           last == Len(req.pending) = 1
       IN IF newName = Null /\ req.handler = "upload-song"
          THEN /\ inflight' = [inflight EXCEPT ![r] =
                     [req EXCEPT !.pc = "done", !.pending = <<>>]]
               /\ UNCHANGED << registry, disk, response >>
          ELSE \E after \in { IF newName = Null
                              THEN [req EXCEPT !.data = held,
                                               !.pending = Tail(@),
                                               !.errors = Append(@, file.original)]
                              ELSE [req EXCEPT !.data =
                                        PlaceSong(held, file.course, file.slot,
                                                  file.original, newName),
                                               !.pending = Tail(@),
                                               !.success = Append(@, file)] } :
                  /\ disk' = IF newName = Null THEN disk
                             ELSE disk \cup {newName}
                  /\ IF last
                     THEN /\ registry' = saveData(after.data)
                          /\ inflight' = [inflight EXCEPT ![r] =
                                [after EXCEPT !.pc = "done", !.status = 200]]
                          /\ response' = Respond(req.handler, 200, "ok",
                                                 after.success, after.errors,
                                                 req.total)
                     ELSE /\ inflight' = [inflight EXCEPT ![r] = after]
                          /\ UNCHANGED << registry, response >>
    /\ UNCHANGED << rateLimiter, now, allocatorVars, analysis >>

\* POST /api/remove-song for a slot that holds a song, while requests wait
RemoveSongMeanwhile(course, slot) ==
    /\ \E r \in Requests : inflight[r].pc = "await"
    /\ registry.course[course].songs[slot.index + 1] # Null
    /\ RemoveSong(course, slot)

RaceNext ==
    \/ \E r \in Requests : \E originalName \in SongNames :
       \E targetCourse \in RaceCourseInputs :
          BeginUploadSong(r, originalName, targetCourse)
    \/ \E r \in Requests : \E files \in FileLists : \E s \in RaceStrategies :
          BeginUploadSongsBatch(r, files, s)
    \/ \E r \in Requests : ResumeRequest(r)
    \/ \E course \in RaceCourseFiles : \E slot \in RaceSlotInputs :
          RemoveSongMeanwhile(course, slot)

RaceSpec == RaceInit /\ [][RaceNext]_vars

(***************************************************************************)
(* The rate limiter (lines 4770-4828).  Date.now() is a clock in           *)
(* milliseconds that never goes back; the requests of the model come at    *)
(* whole minutes, any number of them in the same millisecond.              *)
(***************************************************************************)
\* the age in milliseconds above which cleanup drops a time (line 4804)
CleanupAge == 300000

LimiterInit == ServerInit

\* requests.filter(time => time > windowStart) (lines 4784, 4804)
After(requests, windowStart) ==
    LET Valid(time) == time > windowStart
    IN SelectSeq(requests, Valid)

\* the test of line 4786 with > for >=
LimitReachedAbove(validRequests, maxRequests) == Len(validRequests) > maxRequests

\* validRequests.length >= maxRequests (line 4786)
LimitReached(validRequests, maxRequests) == Len(validRequests) >= maxRequests

\* cleanup() (lines 4801-4811) on the Map with these keys and arrays
cleanup(has, timestamps) ==
    LET validRequests(key) == After(timestamps[key], now - CleanupAge)
        deleted == { key \in has : Len(validRequests(key)) = 0 }
    IN [has |-> has \ deleted,
        timestamps |-> [key \in LimiterKeys |->
                           IF key \in has THEN validRequests(key) ELSE <<>>]]

\* the times of times that are no older than windowMs at time t
NoOlderThan(times, t, windowMs) ==
    LET Recent(time) == time >= t - windowMs
    IN SelectSeq(times, Recent)

\* Date.now() moves on by a minute
Tick ==
    /\ now < MaxClock * 60000
    /\ now' = now + 60000
    /\ rateLimiter' =
          [rateLimiter EXCEPT !.admitted =
              [key \in LimiterKeys |->
                  NoOlderThan(rateLimiter.admitted[key], now', Limits[key].windowMs)]]
    /\ UNCHANGED << allocatorVars, analysis, serverVars, inflight >>

\* rateLimiter.isAllowed(ip, endpoint, maxRequests, windowMs) for the key
\* ip:endpoint (lines 4773-4799); random is whether Math.random() < 0.01
isAllowed(key, random) ==
    LET maxRequests == Limits[key].maxRequests
        windowStart == now - Limits[key].windowMs
        requests == IF key \in rateLimiter.has THEN rateLimiter.timestamps[key]
                    ELSE <<>>
        validRequests == After(requests, windowStart)
        pushed == [has |-> rateLimiter.has \cup {key},
                   timestamps |-> [rateLimiter.timestamps EXCEPT
                                      ![key] = Append(validRequests, now)]]
        cleaned == cleanup(pushed.has, pushed.timestamps)
        validUncleaned == After(rateLimiter.uncleaned[key], windowStart)
        allowedUncleaned == ~LimitReached(validUncleaned, maxRequests)
        uncleaned == IF allowedUncleaned
                     THEN [rateLimiter.uncleaned EXCEPT
                              ![key] = Append(validUncleaned, now)]
                     ELSE rateLimiter.uncleaned
    IN /\ IF LimitReached(validRequests, maxRequests)
          THEN rateLimiter' =
                  [rateLimiter EXCEPT !.has = @ \cup {key},
                                      !.key = key,
                                      !.allowed = FALSE,
                                      !.cleaned = FALSE,
                                      !.uncleaned = uncleaned,
                                      !.allowedUncleaned = allowedUncleaned]
          ELSE rateLimiter' =
                  [has |-> IF random THEN cleaned.has ELSE pushed.has,
                   timestamps |-> IF random THEN cleaned.timestamps
                                  ELSE pushed.timestamps,
                   key |-> key,
                   allowed |-> TRUE,
                   cleaned |-> random,
                   admitted |-> [rateLimiter.admitted EXCEPT
                                    ![key] = Append(@, now)],
                   uncleaned |-> uncleaned,
                   allowedUncleaned |-> allowedUncleaned]
       /\ UNCHANGED << now, allocatorVars, analysis, serverVars, inflight >>

LimiterNext ==
    \/ Tick
    \/ \E key \in LimiterKeys : \E random \in BOOLEAN : isAllowed(key, random)

LimiterSpec == LimiterInit /\ [][LimiterNext]_vars

(***************************************************************************)
(* Vocabulary of the properties.                                           *)
(***************************************************************************)
\* the course keys of a registry
KeysOf(d) == DOMAIN d.course

\* the {course, slot} pairs (0-based slot) that are empty in a registry
EmptyPairs(d) ==
    { [course |-> k, slot |-> i - 1] :
        <<k, i>> \in { t \in KeysOf(d) \X (1..SlotsPerCourse) :
                         d.course[t[1]].songs[t[2]] = Null } }

\* the courses of a registry that have an empty slot
UnderFilled(d) == { p.course : p \in EmptyPairs(d) }

\* the number of occupied slots of a course
Occupied(d, k) ==
    Cardinality({ i \in 1..Len(d.course[k].songs) : d.course[k].songs[i] # Null })

\* the lowest empty slot (0-based) of a course that has one
LowestEmpty(d, k) ==
    CHOOSE n \in 0..(SlotsPerCourse - 1) :
        /\ [course |-> k, slot |-> n] \in EmptyPairs(d)
        /\ \A m \in 0..(n - 1) : [course |-> k, slot |-> m] \notin EmptyPairs(d)

Minimum(a, b) == IF a <= b THEN a ELSE b

\* a batch call is running or has returned
InBatch == pc \in {"original", "random", "seed", "fill", "done"}

\* pair p comes before pair q: smaller course key, or the same course and a
\* smaller slot
PairBefore(p, q) ==
    \/ LexLess(p.course, q.course)
    \/ p.course = q.course /\ p.slot < q.slot

(***************************************************************************)
(* C1  Every entry of a plan of batchAllocation, under every strategy and  *)
(* every N, names a slot that is empty in the input registry and that no   *)
(* earlier entry names; so a plan has no more entries than the input has   *)
(* empty slots and holds no pair twice.  It holds of the plan at every     *)
(* moment of its construction.                                             *)
(***************************************************************************)
C1_PlanEntriesEmptyAndDistinct ==
    InBatch =>
        /\ \A i \in 1..Len(allocations) :
              /\ allocations[i] \in EmptyPairs(input)
              /\ \A j \in 1..(i - 1) : allocations[j] # allocations[i]
        /\ Len(allocations) <= Cardinality(EmptyPairs(input))

\* a random plan that has used both slots of one course and a slot of another
C1_Witness ==
    /\ pc = "done"
    /\ strategy = Random
    /\ Len(allocations) >= 3
    /\ \E i, j \in 1..Len(allocations) :
          i < j /\ allocations[i].course = allocations[j].course
    /\ \E i, j \in 1..Len(allocations) :
          allocations[i].course # allocations[j].course

(***************************************************************************)
(* C2  For every registry, strategy and N >= 0 the plan batchAllocation    *)
(* returns has exactly min(N, number of empty slots of the input) entries; *)
(* with no empty slot and N = 1 it is empty.                               *)
(***************************************************************************)
C2_PlanLengthIsMin ==
    pc = "done" =>
        Len(allocations) = Minimum(songCount, Cardinality(EmptyPairs(input)))

(***************************************************************************)
(* C3  Seed guarantee: when the input has k courses with an empty slot and *)
(* N >= k, the first k entries of a round_robin or least_songs_first plan  *)
(* name k distinct courses (every under-filled course once).               *)
(***************************************************************************)
C3_SeedGuarantee ==
    LET k == Cardinality(UnderFilled(input))
    IN (/\ pc = "done"
        /\ strategy \in {RoundRobin, LeastSongsFirst}
        /\ songCount >= k)
       => /\ Len(allocations) >= k
          /\ \A i, j \in 1..k : i # j => allocations[i].course # allocations[j].course
          /\ { allocations[i].course : i \in 1..k } = UnderFilled(input)

\* three under-filled courses, N > 3: the three are seeded and a course then
\* gets its second item
C3_Witness ==
    /\ pc = "done"
    /\ strategy \in {RoundRobin, LeastSongsFirst}
    /\ Cardinality(UnderFilled(input)) = 3
    /\ songCount > 3
    /\ Len(allocations) > 3

(***************************************************************************)
(* C4  For strategy original the plan lists empty slots of the input in    *)
(* ascending course key and, within a course, ascending slot, and skips    *)
(* none: every empty slot that comes before an entry is an earlier entry.  *)
(* On {A: both empty, B: both empty, C: slot 0 occupied} the plans for     *)
(* N = 3, 4, 5 are the prefixes of [{A,0},{A,1},{B,0},{B,1},{C,1}].        *)
(***************************************************************************)
C4_OriginalOrder ==
    (pc = "done" /\ strategy = Original) =>
        /\ \A i, j \in 1..Len(allocations) :
              i < j => PairBefore(allocations[i], allocations[j])
        /\ \A i \in 1..Len(allocations) :
              \A p \in EmptyPairs(input) :
                 PairBefore(p, allocations[i]) =>
                    \E j \in 1..(i - 1) : allocations[j] = p
        /\ Len(allocations) = Minimum(songCount, Cardinality(EmptyPairs(input)))

\* the registry of the example, A < B < C being its three keys
C4_Example(A, B, C) ==
    /\ KeysOf(input) = {A, B, C}
    /\ LexLess(A, B) /\ LexLess(B, C)
    /\ EmptyPairs(input) =
          { [course |-> A, slot |-> 0], [course |-> A, slot |-> 1],
            [course |-> B, slot |-> 0], [course |-> B, slot |-> 1],
            [course |-> C, slot |-> 1] }

\* the example with N = 5, its keys inserted in descending order
C4_Witness ==
    /\ pc = "done"
    /\ strategy = Original
    /\ songCount = 5
    /\ input.keys # SortStrings(input.keys)
    /\ \E A, B, C \in CourseKeys :
          /\ C4_Example(A, B, C)
          /\ allocations = << [course |-> A, slot |-> 0], [course |-> A, slot |-> 1],
                              [course |-> B, slot |-> 0], [course |-> B, slot |-> 1],
                              [course |-> C, slot |-> 1] >>

(***************************************************************************)
(* C5  batchAllocation does not change its input registry: during and      *)
(* after a call, with any strategy and N, the object data holds the keys   *)
(* and the slots it held when the call was made.                           *)
(***************************************************************************)
C5_InputUnchanged ==
    InBatch =>
        /\ heap["data"] = input
        /\ KeysOf(heap["data"]) = KeysOf(input)

\* a call that has marked slots of its working copy
C5_Witness ==
    /\ pc = "done"
    /\ Len(allocations) >= 2
    /\ \E p \in EmptyPairs(input) :
          heap[dataCopy].course[p.course].songs[p.slot + 1] = ALLOCATED

(***************************************************************************)
(* C6  Determinism: with round_robin, least_songs_first or original, a     *)
(* second call with an equal registry (the same courses and slots, in any  *)
(* of the insertion orders) and the same N returns the plan of the first.  *)
(***************************************************************************)
C6_Deterministic ==
    (/\ pc = "done"
     /\ call = 2
     /\ strategy \in {RoundRobin, LeastSongsFirst, Original})
    => allocations = firstPlan

\* a repeated call on the registry with its keys in the opposite order,
\* returning a plan over several courses
C6_Witness ==
    /\ pc = "done"
    /\ call = 2
    /\ strategy \in {RoundRobin, LeastSongsFirst, Original}
    /\ Len(input.keys) >= 2
    /\ input.keys # SortStrings(input.keys)
    /\ Len(firstPlan) >= 2
    /\ firstPlan[1].course # firstPlan[2].course
    /\ allocations = firstPlan

(***************************************************************************)
(* C7  Single-call round_robin: when some course has an empty slot, the    *)
(* course returned has an empty slot, has the least number of occupied     *)
(* slots among the courses with an empty slot, is the smallest key among   *)
(* those with that number, and the slot is its lowest empty slot.          *)
(***************************************************************************)
C7_RoundRobinLeastLoaded ==
    (/\ pc = "found"
     /\ strategy = RoundRobin
     /\ UnderFilled(input) # {})
    => /\ found.course \in UnderFilled(input)
       /\ \A k \in UnderFilled(input) :
             /\ Occupied(input, found.course) <= Occupied(input, k)
             /\ (Occupied(input, k) = Occupied(input, found.course) /\ k # found.course)
                   => LexLess(found.course, k)
       /\ found.slot = LowestEmpty(input, found.course)

\* round_robin passes over a smaller key that has an empty slot but is more
\* loaded
C7_Witness ==
    /\ pc = "found"
    /\ strategy = RoundRobin
    /\ found # NoPair
    /\ \E k \in UnderFilled(input) :
          LexLess(k, found.course) /\ Occupied(input, k) > Occupied(input, found.course)
    /\ found.slot = LowestEmpty(input, found.course)

(***************************************************************************)
(* C8  For every registry, single-call least_songs_first returns what      *)
(* single-call round_robin returns (the same pair, or no capacity).        *)
(***************************************************************************)
C8_LeastSongsFirstIsRoundRobin ==
    (pc = "found" /\ strategy = LeastSongsFirst)
    => found = findAvailableCourseRoundRobin(input, SortedKeys(input))

(***************************************************************************)
(* C9  Single-call random returns only a pair whose course has an empty    *)
(* slot and whose slot is the lowest empty slot of that course (or no      *)
(* capacity when no course has one), and every course with an empty slot   *)
(* is the course of a value it may return.                                 *)
(***************************************************************************)
C9_RandomCandidates ==
    (pc = "found" /\ strategy = Random)
    => /\ IF UnderFilled(input) = {} THEN found = NoPair
          ELSE /\ found.course \in UnderFilled(input)
               /\ found.slot = LowestEmpty(input, found.course)
       /\ { p.course : p \in findAvailableCourseRandom(input, SortedKeys(input))
                              \ {NoPair} }
             = UnderFilled(input)

\* random returns the last of three candidates, at slot 1
C9_Witness ==
    /\ pc = "found"
    /\ strategy = Random
    /\ Cardinality(UnderFilled(input)) = 3
    /\ \A k \in UnderFilled(input) : k # found.course => LexLess(k, found.course)
    /\ found.slot = 1

(***************************************************************************)
(* C10  NoCapacity: for every strategy findAvailableCourseFair returns     *)
(* null exactly when no course of the registry has an empty slot, and      *)
(* otherwise a pair whose slot is empty in the registry.                   *)
(***************************************************************************)
C10_NullIffNoCapacity ==
    pc = "found" =>
        /\ found = NoPair <=> UnderFilled(input) = {}
        /\ found # NoPair => found \in EmptyPairs(input)

(***************************************************************************)
(* Vocabulary of the properties of the server.                             *)
(***************************************************************************)
\* the (course, slot index) pairs whose slot holds a song in d
OccupiedSlots(d) ==
    { p \in (DOMAIN d.course) \X (0..(SlotsPerCourse - 1)) :
        /\ p[2] < Len(d.course[p[1]].songs)
        /\ d.course[p[1]].songs[p[2] + 1] # Null }

\* the slot indices of the records of course k
RecordSlots(d, k) ==
    { d.course[k].renamed_files[j].slot : j \in 1..Len(d.course[k].renamed_files) }

\* the handlers that place uploaded files
UploadHandlers == { "upload-song", "add-song-to-slot", "upload-songs-batch" }

\* course k of d holds the file named originalName in slot index
Holds(d, k, index, originalName) ==
    /\ k \in DOMAIN d.course
    /\ d.course[k].songs[index + 1] = generatePlaylistName(k, index)
    /\ \E j \in 1..Len(d.course[k].renamed_files) :
          /\ d.course[k].renamed_files[j].original_name = originalName
          /\ d.course[k].renamed_files[j].slot = index

(***************************************************************************)
(* C11.  A preview or a batch upload whose strategy is none of             *)
(* round_robin, least_songs_first, random, original is turned away: the    *)
(* answer is an error, no plan is made and no file is placed.              *)
(***************************************************************************)
C11_InvalidStrategyRejected ==
    [][\A s \in RequestStrategies \ Strategies :
          /\ \A n \in 0..MaxSongCount :
                (response'.handler = "preview" /\ PreviewFairAllocation(n, s))
                    => (response'.status = 400 /\ response'.allocations = <<>>)
          /\ \A files \in FileLists :
                (response'.handler = "upload-songs-batch"
                    /\ UploadSongsBatch(files, s))
                    => /\ response'.status = 400
                       /\ response'.allocations = <<>>
                       /\ response'.success = <<>>
                       /\ OccupiedSlots(registry') = OccupiedSlots(registry)]_vars

(***************************************************************************)
(* C12.  In every course of the registry file the slot indices of the      *)
(* records are pairwise distinct, and slot i holds a song exactly when     *)
(* some record has slot i.                                                 *)
(***************************************************************************)
C12_RegistryInvariant ==
    \A k \in DOMAIN registry.course :
        LET recs == registry.course[k].renamed_files
            songs == registry.course[k].songs
        IN /\ \A i, j \in 1..Len(recs) : i # j => recs[i].slot # recs[j].slot
           /\ \A i \in 1..Len(songs) :
                 songs[i] # Null <=> (i - 1) \in RecordSlots(registry, k)

\* every course of the registry file has two slots, and a course file that
\* appears in the song directory becomes a course with two empty slots
TwoSlotsEach ==
    /\ \A k \in DOMAIN registry.course : Len(registry.course[k].songs) = 2
    /\ \A f \in { KeyPool[1], KeyPool[2] } :
          LET found_ == initData(registry, disk \cup {f})
          IN \A k \in DOMAIN found_.course \ DOMAIN registry.course :
                found_.course[k] = NewCourse

\* add-course for a key the registry does not have creates a course with two
\* empty slots
AddCourseCreates ==
    \A course \in ServerKeys :
        (response'.handler = "add-course" /\ AddCourse(course)
            /\ course \notin DOMAIN registry.course)
            => registry'.course[course] = NewCourse

C14_KeysStay ==
    [][DOMAIN registry.course \subseteq DOMAIN registry'.course
       /\ \A i \in 1..Len(registry.keys) :
             \E j \in 1..Len(registry'.keys) : registry'.keys[j] = registry.keys[i]]_vars

\* delete-all-songs emptied a registry of two courses
C14_Witness ==
    /\ response.handler = "delete-all-songs"
    /\ Len(registry.keys) = 2
    /\ OccupiedSlots(registry) = {}

(***************************************************************************)
(* C15.  With the requests handled one after the other, every file an      *)
(* upload places goes into a slot that is empty in the registry file, no   *)
(* occupied slot changes, and the number of occupied slots grows by the    *)
(* number of files placed.                                                 *)
(***************************************************************************)
C15_UploadsFillEmptySlots ==
    [][response'.handler \in UploadHandlers =>
          /\ \A i \in 1..Len(response'.success) :
                << response'.success[i].course, response'.success[i].slot >>
                    \notin OccupiedSlots(registry)
          /\ \A p \in OccupiedSlots(registry) :
                registry'.course[p[1]].songs[p[2] + 1]
                    = registry.course[p[1]].songs[p[2] + 1]
          /\ Cardinality(OccupiedSlots(registry'))
                = Cardinality(OccupiedSlots(registry))
                      + Len(response'.success)]_vars

\* a batch upload placed two files, and the course is full
C15_Witness ==
    /\ response.handler = "upload-songs-batch"
    /\ Len(response.success) = 2
    /\ Cardinality(OccupiedSlots(registry)) = 2

(***************************************************************************)
(* C16.  When the plan of a batch upload has fewer entries than there are  *)
(* valid files, the first plan.length valid files are placed, file i at    *)
(* plan entry i, every other valid file is reported as an error and        *)
(* placed nowhere, the request is answered, and successes plus errors are  *)
(* the number of files uploaded.                                           *)
(***************************************************************************)
C16_PartialCapacity ==
    (/\ response.handler = "upload-songs-batch"
     /\ Len(response.allocations) < Len(response.validFiles))
    => /\ response.status = 200
       /\ Len(response.success) = Len(response.allocations)
       /\ \A i \in 1..Len(response.allocations) :
             /\ response.success[i] =
                   [original |-> response.validFiles[i],
                    course |-> response.allocations[i].course,
                    slot |-> response.allocations[i].slot]
             /\ Holds(registry, response.allocations[i].course,
                      response.allocations[i].slot, response.validFiles[i])
       /\ \A i \in (Len(response.allocations) + 1)..Len(response.validFiles) :
             \E j \in 1..Len(response.errors) :
                 response.errors[j] = response.validFiles[i]
       /\ Len(response.success) + Len(response.errors) = response.total

(***************************************************************************)
(* Vocabulary of the properties of the analysis.                           *)
(***************************************************************************)
\* the scores of the analysis made, in the order of AnalysisStrategies
Scores == analysis.fairnessScore

\* the number of entries of a plan with these stats
RECURSIVE SumOfCounts(_, _)
SumOfCounts(S, stats) ==
    IF S = {} THEN 0
    ELSE LET k == CHOOSE x \in S : TRUE
         IN stats[k] + SumOfCounts(S \ {k}, stats)

PlacedIn(stats) == SumOfCounts(StatKeys(stats), stats)

\* every course the plan uses has the same number of entries
EvenStats(stats) == \A a, b \in StatKeys(stats) : stats[a] = stats[b]

\* the standard deviation of the per-course counts of a is smaller than that
\* of b: the variances, each a numerator over totalCourses^3 with the mean
\* of the counts, compared by cross-multiplication
SmallerDeviation(a, b) ==
    LET ka == Cardinality(StatKeys(a))
        kb == Cardinality(StatKeys(b))
    IN /\ ka > 0
       /\ kb > 0
       /\ VarianceNumerator(a, PlacedIn(a)) * kb * kb * kb
             < VarianceNumerator(b, PlacedIn(b)) * ka * ka * ka

(***************************************************************************)
(* C17.  The analysis recommends the strategy with the highest fairness    *)
(* score of round_robin, least_songs_first and random, the earliest of     *)
(* them on equal scores; and a strategy whose per-course counts have a     *)
(* smaller standard deviation has a strictly higher score.                 *)
(***************************************************************************)
C17_RecommendsFairest ==
    pc = "analysed" =>
        /\ \E i \in 1..Len(AnalysisStrategies) :
              /\ analysis.recommendation = AnalysisStrategies[i]
              /\ \A j \in 1..Len(AnalysisStrategies) : Scores[j] <= Scores[i]
              /\ \A j \in 1..(i - 1) : Scores[j] < Scores[i]
        /\ \A i, j \in 1..Len(AnalysisStrategies) :
              SmallerDeviation(analysis.stats[i], analysis.stats[j])
                  => Scores[i] > Scores[j]

(***************************************************************************)
(* C18.  Every fairnessScore of an analysis lies in (0, 1], and it is 1    *)
(* exactly when every course the plan of that strategy uses gets the same  *)
(* number of items.                                                        *)
(***************************************************************************)
C18_ScoreInUnitInterval ==
    pc = "analysed" =>
        \A i \in 1..Len(AnalysisStrategies) :
            /\ Scores[i] \in 1..1000
            /\ Scores[i] = 1000 <=> EvenStats(analysis.stats[i])

(***************************************************************************)
(* C19.  Seed-round order: with k courses that have an empty slot, the     *)
(* first min(N, k) entries of a round_robin or least_songs_first plan list *)
(* under-filled courses in ascending order of their occupied-slot count in *)
(* the input, equal counts in ascending key order, none passed over, each  *)
(* at its lowest empty slot.                                               *)
(***************************************************************************)
C19_SeedRoundOrder ==
    LET m == Minimum(songCount, Cardinality(UnderFilled(input)))
        Before(a, b) ==
            \/ Occupied(input, a) < Occupied(input, b)
            \/ Occupied(input, a) = Occupied(input, b) /\ LexLess(a, b)
    IN (pc = "done" /\ strategy \in {RoundRobin, LeastSongsFirst})
       => /\ Len(allocations) >= m
          /\ \A i \in 1..m :
                /\ allocations[i].course \in UnderFilled(input)
                /\ allocations[i].slot = LowestEmpty(input, allocations[i].course)
                /\ \A j \in (i + 1)..m :
                      Before(allocations[i].course, allocations[j].course)
                /\ \A k \in UnderFilled(input) \ { allocations[j].course : j \in 1..m } :
                      Before(allocations[i].course, k)

\* the example of the claim: A and B empty, C with slot 0 occupied, N = 3,
\* the plan [{A,0},{B,0},{C,1}]
C19_Witness ==
    /\ pc = "done"
    /\ strategy \in {RoundRobin, LeastSongsFirst}
    /\ songCount = 3
    /\ \E A, B, C \in KeysOf(input) :
          /\ KeysOf(input) = {A, B, C}
          /\ LexLess(A, B)
          /\ LexLess(B, C)
          /\ Occupied(input, A) = 0
          /\ Occupied(input, B) = 0
          /\ input.course[C].songs[1] # Null
          /\ input.course[C].songs[2] = Null
          /\ allocations = << [course |-> A, slot |-> 0],
                              [course |-> B, slot |-> 0],
                              [course |-> C, slot |-> 1] >>

(***************************************************************************)
(* C20.  Accurate occupancy in fair plans: with two slots in every course, *)
(* every entry of a round_robin or least_songs_first plan is placed in a   *)
(* course whose occupancy at that point, the slots of the earlier entries  *)
(* counted as occupied, is the least of the courses that then have an      *)
(* empty slot; and every entry of the fill round is what single-call       *)
(* round_robin returns on the registry with the earlier entries occupied.  *)
(***************************************************************************)
\* the registry d with the slots of the first m entries of allocs taken
RECURSIVE WithEntries(_, _, _)
WithEntries(d, allocs, m) ==
    IF m = 0 THEN d
    ELSE SetSlot(WithEntries(d, allocs, m - 1), allocs[m].course,
                 allocs[m].slot, ALLOCATED)

C20_AccurateOccupancy ==
    (/\ pc = "done"
     /\ strategy \in {RoundRobin, LeastSongsFirst}
     /\ \A k \in KeysOf(input) : Len(input.course[k].songs) = 2)
    => \A i \in 1..Len(allocations) :
          LET d == WithEntries(input, allocations, i - 1)
          IN /\ allocations[i].course \in UnderFilled(d)
             /\ \A k \in UnderFilled(d) :
                   Occupied(d, allocations[i].course) <= Occupied(d, k)
             /\ i > Cardinality(UnderFilled(input))
                   => allocations[i] = findAvailableCourseRoundRobin(d, SortedKeys(d))

\* a plan with two entries in its fill round, for courses of different
\* occupancy in the input
C20_Witness ==
    /\ pc = "done"
    /\ strategy \in {RoundRobin, LeastSongsFirst}
    /\ Len(allocations) >= Cardinality(UnderFilled(input)) + 2
    /\ \E a, b \in UnderFilled(input) : Occupied(input, a) # Occupied(input, b)

(***************************************************************************)
(* The legacy server (src/server.js): its finder is the first-fit          *)
(* findAvailableCourse, the same function as at line 5143 of the current   *)
(* server, and its batch upload calls it once per file.                    *)
(***************************************************************************)
\* the loop of POST /api/add-songs-batch (src/server.js lines 310-399) over
\* n files with no target course: the {course, slot} of the files it places.
\* With no slot left the file is reported and the loop goes on; when
\* generatePlaylistName gives null, path.join throws, the catch branch
\* reports the file and data is as before.
RECURSIVE addSongsBatchFrom(_, _, _)
addSongsBatchFrom(data, n, results) ==
    IF n = 0 THEN results
    ELSE LET available == findAvailableCourse(data)
             newName == generatePlaylistName(available.course, available.slot)
         IN IF available = NoPair THEN addSongsBatchFrom(data, n - 1, results)
            ELSE IF newName = Null THEN addSongsBatchFrom(data, n - 1, results)
            ELSE addSongsBatchFrom(SetSlot(data, available.course,
                                           available.slot, newName),
                                   n - 1, Append(results, available))

addSongsBatch(data, n) == addSongsBatchFrom(data, n, <<>>)

(***************************************************************************)
(* C21.  Legacy equivalence: the plan of batchAllocation with strategy     *)
(* original is the sequence of placements of N calls of the legacy         *)
(* first-fit findAvailableCourse, the slot returned filled after each call *)
(* and the calls ending when it reports no capacity; and that sequence is  *)
(* what the legacy add-songs-batch loop places for N files.                *)
(***************************************************************************)
\* the placements of at most n calls of findAvailableCourse on d, each slot
\* filled after its call
RECURSIVE FirstFitTimes(_, _)
FirstFitTimes(d, n) ==
    IF n = 0 THEN <<>>
    ELSE LET available == findAvailableCourse(d)
         IN IF available = NoPair THEN <<>>
            ELSE << available >>
                     \o FirstFitTimes(SetSlot(d, available.course,
                                              available.slot, ALLOCATED), n - 1)

C21_LegacyEquivalence ==
    (pc = "done" /\ strategy = Original)
    => /\ allocations = FirstFitTimes(input, songCount)
       /\ allocations = addSongsBatch(input, songCount)

(***************************************************************************)
(* C22.  Fallback for an unrecognized strategy string: batchAllocation     *)
(* returns the plan it returns for round_robin, and single-call            *)
(* findAvailableCourseFair returns what the first-fit findAvailableCourse  *)
(* returns; with the strategy left out both work as for round_robin.       *)
(***************************************************************************)
C22_Fallbacks ==
    /\ (pc = "done" /\ strategy \notin Strategies)
          => batchAllocation(input, songCount, RoundRobin) = { allocations }
    /\ (pc = "found" /\ strategy \notin Strategies)
          => found = findAvailableCourse(input)
    /\ pc = "done"
          => batchAllocation(input, songCount, Undefined)
                = batchAllocation(input, songCount, RoundRobin)
    /\ pc = "found"
          => findAvailableCourseFair(input, Undefined)
                = findAvailableCourseFair(input, RoundRobin)

(***************************************************************************)
(* Vocabulary of the properties of overlapping requests.                   *)
(***************************************************************************)
\* request r is an upload-song with no target course that passed its checks
AutoUpload(r) ==
    /\ inflight[r].handler = "upload-song"
    /\ inflight[r].target = Null
    /\ Len(inflight[r].pending) + Len(inflight[r].success) = 1

\* the {course, slot} the upload-song r was assigned
Assigned(r) ==
    LET file == IF inflight[r].pending # <<>> THEN inflight[r].pending[1]
                ELSE inflight[r].success[1]
    IN [course |-> file.course, slot |-> file.slot]

\* the records of course k of d whose slot is index
SlotRecords(d, k, index) ==
    SelectSeq(d.course[k].renamed_files, LAMBDA f : f.slot = index)

\* request r saves its data in this step
Saves(r) ==
    /\ inflight[r].pc = "await"
    /\ inflight'[r].pc = "done"
    /\ inflight'[r].status = 200

(***************************************************************************)
(* C23.  Upload race: two auto-assigning upload-song requests that load    *)
(* the same registry are assigned the same {course, slot}; when the second *)
(* of them saves, both have reported success and the registry file holds   *)
(* one assignment for that slot, that of the second.                       *)
(***************************************************************************)
C23_UploadRace ==
    /\ [](\A r, q \in Requests :
             (AutoUpload(r) /\ AutoUpload(q)
                 /\ inflight[r].loaded = inflight[q].loaded)
                 => Assigned(r) = Assigned(q))
    /\ [][\A r, q \in Requests :
             (/\ Saves(r)
              /\ AutoUpload(r)
              /\ AutoUpload(q)
              /\ inflight[q].pc = "done"
              /\ inflight[q].status = 200
              /\ Assigned(q) = Assigned(r))
             => LET a == Assigned(r)
                IN /\ SlotRecords(registry', a.course, a.slot)
                        = << [original_name |-> inflight[r].pending[1].original,
                              playlist_name |->
                                  generatePlaylistName(a.course, a.slot),
                              slot |-> a.slot] >>
                   /\ registry'.course[a.course].songs[a.slot + 1]
                        = generatePlaylistName(a.course, a.slot)]_vars

\* both overlapping uploads, of different files, reported success for the
\* same course and slot, and the registry file has one record for the slot
C23_Witness ==
    /\ \A r \in 1..2 : AutoUpload(r) /\ inflight[r].pc = "done"
                           /\ inflight[r].status = 200
    /\ Assigned(1) = Assigned(2)
    /\ inflight[1].success[1].original # inflight[2].success[1].original
    /\ Len(SlotRecords(registry, Assigned(1).course, Assigned(1).slot)) = 1

(***************************************************************************)
(* C24.  Lost update: when a request saves, the registry file holds the    *)
(* snapshot it loaded with its own assignments, so in every other slot     *)
(* that another request changed and saved meanwhile the file is again as   *)
(* the snapshot was: an assignment made meanwhile is missing, an           *)
(* assignment removed meanwhile is present again.                          *)
(***************************************************************************)
C24_LostUpdate ==
    [][\A r \in Requests :
          Saves(r) =>
             \A k \in DOMAIN registry.course :
                \A i \in 1..Len(registry.course[k].songs) :
                   (/\ \A j \in 1..Len(inflight'[r].success) :
                           << inflight'[r].success[j].course,
                              inflight'[r].success[j].slot >> # << k, i - 1 >>
                    /\ registry.course[k].songs[i]
                           # inflight[r].loaded.course[k].songs[i])
                   => /\ registry'.course[k].songs[i]
                           = inflight[r].loaded.course[k].songs[i]
                      /\ SlotRecords(registry', k, i - 1)
                           = SlotRecords(inflight[r].loaded, k, i - 1)]_vars

\* the second request placed a file in another slot and saved, then the
\* first saved: the slot of the second is empty in the registry file
C24_Witness ==
    /\ \A r \in 1..2 : inflight[r].pc = "done" /\ inflight[r].status = 200
                           /\ Len(inflight[r].success) = 1
    /\ response.success = inflight[1].success
    /\ Assigned(1) # Assigned(2)
    /\ inflight[2].loaded = inflight[1].loaded
    /\ registry.course[Assigned(2).course].songs[Assigned(2).slot + 1] = Null

(***************************************************************************)
(* C25.  remove-song on a slot that holds a song, in a course that exists, *)
(* empties that slot and removes the records of that slot and nothing      *)
(* else: the other slot, the other records, the other courses and the keys *)
(* stay, and the slot is among the empty slots the allocator chooses from. *)
(* remove-song on a course that does not exist or on an empty slot is      *)
(* answered with an error and leaves the registry file as it was.          *)
(***************************************************************************)
C25_Removal ==
    [][\A course \in ServerKeys : \A slot \in SlotInputs :
          (response'.handler = "remove-song" /\ RemoveSong(course, slot))
              => IF /\ course \in DOMAIN registry.course
                    /\ << course, slot.index >> \in OccupiedSlots(registry)
                 THEN LET Other(f) == f.slot # slot.index
                      IN /\ response'.status = 200
                         /\ registry'.keys = registry.keys
                         /\ registry'.course[course].songs =
                               [registry.course[course].songs
                                   EXCEPT ![slot.index + 1] = Null]
                         /\ registry'.course[course].renamed_files =
                               SelectSeq(registry.course[course].renamed_files,
                                         Other)
                         /\ \A k \in DOMAIN registry.course \ {course} :
                               registry'.course[k] = registry.course[k]
                         /\ [course |-> course, slot |-> slot.index]
                               \in EmptyPairs(registry')
                 ELSE /\ response'.status = 400
                      /\ registry' = registry]_vars

(***************************************************************************)
(* C26.  For every registry and every N, batchAllocation returns the same  *)
(* plan for round_robin and for least_songs_first; so the analysis gives   *)
(* the two strategies equal scores and never recommends                    *)
(* least_songs_first.                                                      *)
(***************************************************************************)
C26_RoundRobinIsLeastSongsFirst ==
    /\ (pc = "done" /\ strategy \in { RoundRobin, LeastSongsFirst })
          => /\ batchAllocation(input, songCount, RoundRobin) = { allocations }
             /\ batchAllocation(input, songCount, LeastSongsFirst) = { allocations }
    /\ pc = "analysed"
          => /\ Scores[1] = Scores[2]
             /\ analysis.recommendation # LeastSongsFirst

(***************************************************************************)
(* Vocabulary of the properties of rejected uploads.                       *)
(***************************************************************************)
\* upload-song with these inputs is one the handler has to turn away, seen
\* from the registry file: no empty slot anywhere with no target course, a
\* target course that does not exist or is full, or a name some record has
UploadSongRefused(d, originalName, targetCourse) ==
    \/ ~Truthy(targetCourse) /\ EmptyPairs(d) = {}
    \/ Truthy(targetCourse) /\ targetCourse \notin DOMAIN d.course
    \/ /\ Truthy(targetCourse)
       /\ targetCourse \in DOMAIN d.course
       /\ \A i \in 1..SlotsPerCourse : d.course[targetCourse].songs[i] # Null
    \/ \E k \in DOMAIN d.course : \E j \in 1..Len(d.course[k].renamed_files) :
          d.course[k].renamed_files[j].original_name = originalName

\* add-song-to-slot with these inputs is one the handler has to turn away:
\* the slot holds a song, or the index is neither 0 nor 1
AddSongToSlotRefused(d, course, slotIndex) ==
    \/ slotIndex \notin { 0, 1 }
    \/ course \in DOMAIN d.course /\ << course, slotIndex >> \in OccupiedSlots(d)

\* the step is an upload-song or an add-song-to-slot that was turned away,
\* or that has to be for the registry d
RejectedUpload(d) ==
    \/ /\ response'.handler \in { "upload-song", "add-song-to-slot" }
       /\ response'.status = 400
    \/ \E originalName \in SongNames : \E course \in CourseInputs :
          \/ /\ response'.handler = "upload-song"
             /\ UploadSong(originalName, course)
             /\ UploadSongRefused(d, originalName, course)
          \/ \E slotIndex \in 0..SlotsPerCourse :
                /\ response'.handler = "add-song-to-slot"
                /\ AddSongToSlot(originalName, course, slotIndex)
                /\ AddSongToSlotRefused(d, course, slotIndex)

RecordsOfFiles ==
    LET Exists(file) == file.playlist_name \in disk
    IN [registry EXCEPT !.course =
           [k \in DOMAIN registry.course |->
               [registry.course[k] EXCEPT !.renamed_files = SelectSeq(@, Exists)]]]

C28_UniqueOriginalNames ==
    \A k1, k2 \in DOMAIN registry.course :
        \A j1 \in 1..Len(registry.course[k1].renamed_files) :
        \A j2 \in 1..Len(registry.course[k2].renamed_files) :
            registry.course[k1].renamed_files[j1].original_name
                = registry.course[k2].renamed_files[j2].original_name
            => (k1 = k2 /\ j1 = j2)

(***************************************************************************)
(* C29.  After update-music-map, handled with no other request in between, *)
(* the records of every course are those of before whose file is in the    *)
(* song directory, slot i holds a song exactly when a record has slot i,   *)
(* and it holds the playlist name of that record; so a slot that held a    *)
(* song with no record is empty.                                           *)
(***************************************************************************)
C29_UpdateMusicMapRepairs ==
    [][response'.handler = "update-music-map" =>
          /\ registry'.keys = registry.keys
          /\ \A k \in DOMAIN registry.course :
                LET Exists(file) == file.playlist_name \in disk'
                    recs == registry'.course[k].renamed_files
                    songs == registry'.course[k].songs
                IN /\ recs = SelectSeq(registry.course[k].renamed_files, Exists)
                   /\ \A i \in 1..Len(songs) :
                         songs[i] # Null <=> (i - 1) \in RecordSlots(registry', k)
                   /\ \A j \in 1..Len(recs) :
                         songs[recs[j].slot + 1] = recs[j].playlist_name
                   /\ \A i \in 1..Len(registry.course[k].songs) :
                         (/\ registry.course[k].songs[i] # Null
                          /\ \A j \in 1..Len(registry.course[k].renamed_files) :
                                registry.course[k].renamed_files[j].slot = i - 1
                                    => ~Exists(registry.course[k].renamed_files[j]))
                             => songs[i] = Null]_vars

\* update-music-map was answered, and a course has its slot 0 empty with the
\* file of slot 0 gone from the song directory, and its slot 1 with a song
\* and its record
C29_Witness ==
    /\ response.handler = "update-music-map"
    /\ \E k \in DOMAIN registry.course :
          /\ registry.course[k].songs[1] = Null
          /\ generatePlaylistName(k, 0) \notin disk
          /\ registry.course[k].songs[2] = generatePlaylistName(k, 1)
          /\ Len(registry.course[k].renamed_files) = 1
          /\ registry.course[k].renamed_files[1].slot = 1
          /\ registry.course[k].renamed_files[1].original_name = <<97>> \o Mp3

(***************************************************************************)
(* Vocabulary of the properties of the rate limiter.                       *)
(***************************************************************************)
\* the number of requests of key let through at the times from..now
AdmittedSince(key, from) ==
    Cardinality({ i \in 1..Len(rateLimiter.admitted[key]) :
                     rateLimiter.admitted[key][i] >= from })

\* a request the limiter turns away leaves the times it holds, and the
\* requests let through, as they were
DeniedNotRecorded ==
    (now' = now /\ ~rateLimiter'.allowed)
        => /\ rateLimiter'.timestamps = rateLimiter.timestamps
           /\ rateLimiter'.admitted = rateLimiter.admitted

\* the last answer of isAllowed is the answer it gives when cleanup never
\* runs
CleanupChangesNoDecision == rateLimiter.allowed = rateLimiter.allowedUncleaned

(***************************************************************************)
(* C30.  For every key of the limiter, with a clock that never goes back,  *)
(* no more than maxRequests of the requests isAllowed lets through fall in *)
(* a time interval of length windowMs, the interval from now - windowMs to *)
(* now with both ends; a request turned away is not recorded; and the      *)
(* cleanup, which drops the times older than 5 minutes, changes no answer  *)
(* for the windows of at most 5 minutes.                                   *)
(***************************************************************************)
C30_RateLimiter ==
    /\ [](\A key \in LimiterKeys :
             AdmittedSince(key, now - Limits[key].windowMs)
                 <= Limits[key].maxRequests)
    /\ [][DeniedNotRecorded]_vars
    /\ []CleanupChangesNoDecision

\* C30 as the program has it: the window of isAllowed is the windowMs
\* milliseconds that end with now, without the millisecond now - windowMs;
\* no more than maxRequests of the requests let through fall in it.
C30_RateLimiterWindowOpenAtStart ==
    /\ [](\A key \in LimiterKeys :
             AdmittedSince(key, now - Limits[key].windowMs + 1)
                 <= Limits[key].maxRequests)
    /\ [][DeniedNotRecorded]_vars
    /\ []CleanupChangesNoDecision

\* delete-all was turned away more than 5 minutes after the first request,
\* its two requests of the last window let through, and cleanup has deleted
\* the entry of upload that the limiter had
C30_Witness ==
    /\ rateLimiter.key = "ip:delete-all"
    /\ ~rateLimiter.allowed
    /\ now > CleanupAge
    /\ AdmittedSince("ip:delete-all", now - Limits["ip:delete-all"].windowMs + 1)
          = Limits["ip:delete-all"].maxRequests
    /\ "ip:upload" \notin rateLimiter.has
    /\ rateLimiter.uncleaned["ip:upload"] # <<>>

====
